---- MODULE Spec2Model ----
(***************************************************************************)
(* A model of the say2 core trace engine:                                  *)
(*   - MessageStore       (packages/core/src/store/message-store.ts)       *)
(*   - MiddlewarePipeline (packages/core/src/middleware/pipeline.ts)       *)
(*   - SessionManager     (packages/core/src/session/manager.ts)           *)
(* Events, filters and handlers are drawn from small finite sets; the      *)
(* operations are translated from the TypeScript source.                   *)
(***************************************************************************)
EXTENDS Integers, Sequences, FiniteSets, TLC

VARIABLES
    messages,     \* MessageStore.messages    : Map<string, MessageEvent[]>
    byRequestId,  \* MessageStore.byRequestId : Map<string, MessageEvent>
    arrays,       \* heap of middleware arrays, by reference
    middlewares,  \* MiddlewarePipeline.middlewares : reference into arrays
    composedFn,   \* MiddlewarePipeline.composedFn  : null or the closure's array
    runs,         \* the process()/run() calls, each with its Context and position
    filter,       \* the MessageFilter the caller of query passes
    sessions,     \* SessionManager.sessions : Map from id to Session
    clock,        \* the time new Date() returns
    issued,       \* how many ids crypto.randomUUID() has returned
    config,       \* the ServerConfig the caller of create passes
    last          \* the last operation a caller made, its arguments and its result

vars == <<messages, byRequestId, arrays, middlewares, composedFn, runs, filter,
          sessions, clock, issued, config, last>>

storeVars == <<messages, byRequestId>>
pipeVars == <<arrays, middlewares, composedFn, runs>>
regVars == <<sessions, clock, issued, config>>

-----------------------------------------------------------------------------
(* Bounds of the model *)

\* most events the store holds
MaxEvents == 3
\* most handlers one middleware array holds
MaxHandlers == 3
\* latest time the clock reaches
MaxTime == 1

-----------------------------------------------------------------------------
(* Optional values: `undefined` is None, a present value v is Some(v) *)

None == <<>>
Some(v) == <<v>>

\* JavaScript truthiness of an optional string: undefined and "" are falsy
StrTruthy(o) == o # None /\ o[1] # ""
\* JavaScript truthiness of an optional object (a Date): only undefined is falsy
ObjTruthy(o) == o # None

-----------------------------------------------------------------------------
(* JSON-RPC payloads and message events *)

\* a request id is a number or a string; === compares type and value
Num(n) == [type |-> "number", num |-> n, str |-> ""]
Str(s) == [type |-> "string", num |-> 0, str |-> s]

\* String(n) for the numbers of the model
NumToString(n) ==
    CASE n = 0 -> "0" [] n = 1 -> "1" [] n = 2 -> "2" [] n = 3 -> "3"
      [] OTHER -> "9"

\* the template literal's conversion of a request id
RequestIdToString(r) == IF r.type = "number" THEN NumToString(r.num) ELSE r.str

\* payloads: the keys present, the id (None when null or absent), the method
JsonRpcRequest(id, method) ==
    [keys |-> {"jsonrpc", "id", "method"}, id |-> Some(id), method |-> method]
JsonRpcResponse(id) ==
    [keys |-> {"jsonrpc", "id", "result"}, id |-> id, method |-> ""]
JsonRpcErrorResponse(id) ==
    [keys |-> {"jsonrpc", "id", "error"}, id |-> id, method |-> ""]
JsonRpcNotification(method) ==
    [keys |-> {"jsonrpc", "method"}, id |-> None, method |-> method]

\* createMessageEvent, with the uuid and the clock reading as inputs
createMessageEvent(id, timestamp, sessionId, direction, payload) ==
    [id |-> id,
     sessionId |-> sessionId,
     timestamp |-> timestamp,
     direction |-> direction,
     protocol |-> "mcp",
     payload |-> payload,
     method |-> IF "method" \in payload.keys THEN Some(payload.method) ELSE None,
     requestId |-> IF "id" \in payload.keys /\ payload.id # None
                   THEN payload.id ELSE None]

-----------------------------------------------------------------------------
(* JavaScript Map: a sequence of entries in insertion order *)

MapHas(m, k) == \E i \in 1..Len(m) : m[i].key = k
MapGet(m, k) == m[CHOOSE i \in 1..Len(m) : m[i].key = k].val
MapSet(m, k, v) ==
    IF MapHas(m, k)
    THEN [i \in 1..Len(m) |-> IF m[i].key = k THEN [key |-> k, val |-> v] ELSE m[i]]
    ELSE Append(m, [key |-> k, val |-> v])
MapDelete(m, k) == SelectSeq(m, LAMBDA en : en.key # k)

RECURSIVE Flat(_)
\* Array.from(map.values()).flat()
Flat(m) == IF m = <<>> THEN <<>> ELSE Head(m).val \o Flat(Tail(m))

\* Array.prototype.find: the element at the least index of hits (the indices
\* whose element satisfies the callback), or undefined
Find(s, hits) ==
    IF hits # {}
    THEN Some(s[CHOOSE i \in hits : \A j \in hits : i <= j])
    ELSE None

-----------------------------------------------------------------------------
(* MessageStore; the operators take the maps (msgs, idx) and the filter (f) *)

\* a key made of the requestId alone
makeRequestKeyNoSession(sessionId, requestId) == RequestIdToString(requestId)

makeRequestKey(sessionId, requestId) ==
    sessionId \o ":" \o RequestIdToString(requestId)

\* this.messages.get(sessionId) ?? []
getBySession(msgs, sessionId) ==
    IF MapHas(msgs, sessionId) THEN MapGet(msgs, sessionId) ELSE <<>>

\* a store that keeps only the newest event of a session
storeMessagesReplacing(msgs, event) ==
    MapSet(msgs, event.sessionId, <<event>>)

\* the session log after store(event)
storeMessages(msgs, event) ==
    MapSet(msgs, event.sessionId, Append(getBySession(msgs, event.sessionId), event))

\* an index step that also enters the events without a requestId, under the
\* key the template literal makes of undefined
storeIndexAlways(idx, event) ==
    MapSet(idx,
           IF event.requestId # None
           THEN makeRequestKey(event.sessionId, event.requestId[1])
           ELSE event.sessionId \o ":undefined",
           event)

\* the requestId index after store(event)
storeIndex(idx, event) ==
    IF event.requestId # None
    THEN MapSet(idx, makeRequestKey(event.sessionId, event.requestId[1]), event)
    ELSE idx

getByRequestId(idx, sessionId, requestId) ==
    LET key == makeRequestKey(sessionId, requestId)
    IN  IF MapHas(idx, key) THEN Some(MapGet(idx, key)) ELSE None

\* "error" in payload
PayloadHasError(m) == "error" \in m.payload.keys

\* the f steps of query, in the code's order
filterSession(msgs, f) ==
    IF StrTruthy(f.sessionId)
    THEN getBySession(msgs, f.sessionId[1])
    ELSE Flat(msgs)
filterDirection(results, f) ==
    IF StrTruthy(f.direction)
    THEN SelectSeq(results, LAMBDA m : m.direction = f.direction[1])
    ELSE results
filterMethod(results, f) ==
    IF StrTruthy(f.method)
    THEN SelectSeq(results, LAMBDA m : m.method = f.method)
    ELSE results
filterHasError(results, f) ==
    IF f.hasError # None
    THEN SelectSeq(results, LAMBDA m :
            IF f.hasError[1] THEN PayloadHasError(m) ELSE ~PayloadHasError(m))
    ELSE results
\* a startTime step that leaves out the events exactly at startTime
filterStartTimeExclusive(results, f) ==
    IF ObjTruthy(f.startTime)
    THEN SelectSeq(results, LAMBDA m : m.timestamp > f.startTime[1])
    ELSE results

filterStartTime(results, f) ==
    IF ObjTruthy(f.startTime)
    THEN SelectSeq(results, LAMBDA m : m.timestamp >= f.startTime[1])
    ELSE results
filterEndTime(results, f) ==
    IF ObjTruthy(f.endTime)
    THEN SelectSeq(results, LAMBDA m : m.timestamp <= f.endTime[1])
    ELSE results

query(msgs, f) ==
    filterEndTime(
      filterStartTime(
        filterHasError(
          filterMethod(
            filterDirection(
              filterSession(msgs, f), f), f), f), f), f)

\* a request search that takes the first event with this requestId
findRequestAnyDirection(log, requestId) ==
    Find(log, {i \in 1..Len(log) : log[i].requestId = Some(requestId)})

\* the request of correlate: the first outbound event with this requestId
findRequest(log, requestId) ==
    Find(log, {i \in 1..Len(log) :
                 log[i].direction = "outbound" /\ log[i].requestId = Some(requestId)})

\* a response search that takes the first event with this requestId
findResponseAnyDirection(log, requestId) ==
    Find(log, {i \in 1..Len(log) : log[i].requestId = Some(requestId)})

\* the response of correlate: the first inbound event with this requestId
findResponse(log, requestId) ==
    Find(log, {i \in 1..Len(log) :
                 log[i].direction = "inbound" /\ log[i].requestId = Some(requestId)})

\* a latency with the operands swapped
latencySwapped(request, response) ==
    IF request # None /\ response # None
    THEN Some(request[1].timestamp - response[1].timestamp)
    ELSE None

\* latencyMs of correlate
latency(request, response) ==
    IF request # None /\ response # None
    THEN Some(response[1].timestamp - request[1].timestamp)
    ELSE None

correlate(msgs, sessionId, requestId) ==
    LET log == getBySession(msgs, sessionId)
        request == findRequest(log, requestId)
        response == findResponse(log, requestId)
    IN  IF request = None
        THEN None
        ELSE Some([request |-> request[1],
                   response |-> response,
                   latencyMs |-> latency(request, response)])

countBySession(msgs, sessionId) == Len(getBySession(msgs, sessionId))

RECURSIVE count(_)
count(msgs) == IF msgs = <<>> THEN 0 ELSE Len(Head(msgs).val) + count(Tail(msgs))

RECURSIVE deleteKeys(_, _, _)
\* the loop of clearSession over the session's log
deleteKeys(idx, sessionId, log) ==
    IF log = <<>> THEN idx
    ELSE deleteKeys(
           IF Head(log).requestId # None
           THEN MapDelete(idx, makeRequestKey(sessionId, Head(log).requestId[1]))
           ELSE idx,
           sessionId, Tail(log))

\* a clearSession that removes only the index entry of the log's first event
clearSessionIndexFirstOnly(msgs, idx, sessionId) ==
    LET log == getBySession(msgs, sessionId)
    IN  deleteKeys(idx, sessionId, IF log = <<>> THEN <<>> ELSE <<Head(log)>>)

clearSessionIndex(msgs, idx, sessionId) ==
    deleteKeys(idx, sessionId, getBySession(msgs, sessionId))

-----------------------------------------------------------------------------
(* The inputs of the store operations *)

SessionIds == {"s1", "s2", "s3"}
RequestIds == {Num(1), Num(2), Str("1")}

\* events for the correlation and lookup operations
StoreEvents ==
    { createMessageEvent("e1", 2, "s1", "outbound", JsonRpcRequest(Num(1), "tools/list")),
      createMessageEvent("e2", 3, "s1", "outbound", JsonRpcRequest(Num(1), "tools/call")),
      createMessageEvent("e3", 1, "s1", "inbound", JsonRpcResponse(Some(Num(1)))),
      createMessageEvent("e4", 3, "s1", "inbound", JsonRpcErrorResponse(Some(Num(1)))),
      createMessageEvent("e5", 3, "s1", "inbound", JsonRpcResponse(Some(Str("1")))),
      createMessageEvent("e6", 2, "s1", "inbound", JsonRpcResponse(Some(Num(2)))),
      createMessageEvent("e7", 2, "s1", "inbound", JsonRpcNotification("notify")),
      createMessageEvent("e8", 1, "s2", "outbound", JsonRpcRequest(Num(1), "tools/list")),
      createMessageEvent("e9", 2, "s2", "inbound", JsonRpcResponse(Some(Num(1)))) }

\* events for query: sessions, directions, methods, error payloads and times vary
QueryEvents ==
    { createMessageEvent("q1", 1, "s1", "outbound", JsonRpcRequest(Num(1), "ping")),
      createMessageEvent("q2", 2, "s1", "inbound", JsonRpcErrorResponse(Some(Num(1)))),
      createMessageEvent("q3", 3, "s1", "inbound", JsonRpcResponse(Some(Num(1)))),
      createMessageEvent("q4", 2, "s1", "outbound", JsonRpcRequest(Num(2), "")),
      createMessageEvent("q5", 2, "s2", "outbound", JsonRpcRequest(Num(1), "ping")) }

Opt(S) == {None} \cup {Some(x) : x \in S}

\* MessageFilter values
Filters ==
    [sessionId : Opt({"s1", "s3"}),
     direction : Opt({"inbound", "outbound"}),
     method    : Opt({"", "ping"}),
     hasError  : Opt(BOOLEAN),
     startTime : Opt({2}),
     endTime   : Opt({2})]

\* the filter with no field supplied
NoFilter ==
    [sessionId |-> None, direction |-> None, method |-> None,
     hasError |-> None, startTime |-> None, endTime |-> None]

-----------------------------------------------------------------------------
(* Operations of the MessageStore *)

\* a call: the operation, its arguments, what it returned, and the store, the
\* registry and the time as they were when the call was made
Called(op, args, out) ==
    [op |-> op, args |-> args, out |-> out,
     pre |-> [messages |-> messages, byRequestId |-> byRequestId,
              sessions |-> sessions, clock |-> clock]]

Store(event) ==
    /\ count(messages) < MaxEvents
    /\ messages' = storeMessages(messages, event)
    /\ byRequestId' = storeIndex(byRequestId, event)
    /\ last' = Called("store", <<event>>, None)
    /\ UNCHANGED <<pipeVars, filter, regVars>>

GetBySession(sessionId) ==
    /\ last' = Called("getBySession", <<sessionId>>, getBySession(messages, sessionId))
    /\ UNCHANGED <<storeVars, pipeVars, filter, regVars>>

GetByRequestId(sessionId, requestId) ==
    /\ last' = Called("getByRequestId", <<sessionId, requestId>>,
                      getByRequestId(byRequestId, sessionId, requestId))
    /\ UNCHANGED <<storeVars, pipeVars, filter, regVars>>

Query ==
    /\ last' = Called("query", <<filter>>, query(messages, filter))
    /\ UNCHANGED <<storeVars, pipeVars, filter, regVars>>

Correlate(sessionId, requestId) ==
    /\ last' = Called("correlate", <<sessionId, requestId>>,
                      correlate(messages, sessionId, requestId))
    /\ UNCHANGED <<storeVars, pipeVars, filter, regVars>>

\* a countBySession that registers an empty log for a session it does not know
CountBySessionRegistering(sessionId) ==
    /\ messages' = MapSet(messages, sessionId, getBySession(messages, sessionId))
    /\ UNCHANGED byRequestId
    /\ last' = Called("countBySession", <<sessionId>>, countBySession(messages, sessionId))
    /\ UNCHANGED <<pipeVars, filter, regVars>>

CountBySession(sessionId) ==
    /\ last' = Called("countBySession", <<sessionId>>, countBySession(messages, sessionId))
    /\ UNCHANGED <<storeVars, pipeVars, filter, regVars>>

Count ==
    /\ last' = Called("count", <<>>, count(messages))
    /\ UNCHANGED <<storeVars, pipeVars, filter, regVars>>

ClearSession(sessionId) ==
    /\ byRequestId' = clearSessionIndex(messages, byRequestId, sessionId)
    /\ messages' = MapDelete(messages, sessionId)
    /\ last' = Called("clearSession", <<sessionId>>, None)
    /\ UNCHANGED <<pipeVars, filter, regVars>>

\* a clear that empties the session logs and keeps the requestId index
ClearLogsOnly ==
    /\ messages' = <<>>
    /\ byRequestId' = byRequestId
    /\ last' = Called("clear", <<>>, None)
    /\ UNCHANGED <<pipeVars, filter, regVars>>

Clear ==
    /\ messages' = <<>>
    /\ byRequestId' = <<>>
    /\ last' = Called("clear", <<>>, None)
    /\ UNCHANGED <<pipeVars, filter, regVars>>

-----------------------------------------------------------------------------
(* SessionManager: the registry of sessions, a Map from id to Session *)

SessionStates == {"CREATED", "INITIALIZING", "ACTIVE", "CLOSED", "ERROR"}

\* crypto.randomUUID(): a version-4 UUID, taken as never repeating; the n-th
\* call returns the n-th id of UuidSeq
UuidSeq == <<"u1", "u2">>
\* a randomUUID that returns the same id at every call
randomUUIDRepeating(n) == UuidSeq[1]

randomUUID(n) == UuidSeq[n + 1]

\* ServerConfig values a caller passes to create: a stdio server, an http
\* server, an empty name, a transport outside the enum, http without its url
Configs ==
    { [name |-> "srv", transport |-> "stdio", command |-> Some("node"), url |-> None],
      [name |-> "web", transport |-> "http", command |-> None, url |-> Some("http://h")],
      [name |-> "", transport |-> "stdio", command |-> Some("node"), url |-> None],
      [name |-> "srv", transport |-> "ws", command |-> None, url |-> None],
      [name |-> "web", transport |-> "http", command |-> None, url |-> None] }

\* the config of the tests: { name: "test", transport: "stdio" }
DefaultConfig ==
    [name |-> "test", transport |-> "stdio", command |-> None, url |-> None]

\* the capability maps a caller passes to updateCapabilities
Capabilities == {"caps"}

\* capability maps for calls that supply either side, the empty map included
CapabilityMaps == {"{}", "{tools}"}

\* the ids a caller passes: the issued ones and one that is never issued
Ids == {"u1", "u2", "unknown"}

\* a createSession that starts the session in INITIALIZING
createSessionInitializing(id, now, cfg) ==
    [id |-> id, state |-> "INITIALIZING", createdAt |-> now, updatedAt |-> now,
     config |-> cfg, protocol |-> "mcp", protocolVersion |-> None,
     clientCapabilities |-> None, serverCapabilities |-> None]

\* createSession(config), with the id and the time it draws
createSession(id, now, cfg) ==
    [id |-> id, state |-> "CREATED", createdAt |-> now, updatedAt |-> now,
     config |-> cfg, protocol |-> "mcp", protocolVersion |-> None,
     clientCapabilities |-> None, serverCapabilities |-> None]

\* Array.from(map.values())
Values(m) == [i \in 1..Len(m) |-> m[i].val]

get(ss, id) == IF MapHas(ss, id) THEN Some(MapGet(ss, id)) ELSE None

\* a list that leaves out only the CLOSED sessions
listNotClosed(ss) ==
    SelectSeq(Values(ss), LAMBDA session : session.state # "CLOSED")

list(ss) ==
    SelectSeq(Values(ss), LAMBDA session :
        session.state # "CLOSED" /\ session.state # "ERROR")

listAll(ss) == Values(ss)

\* a close that acts only on sessions that are not in ERROR
closeUnlessError(ss, id, now) ==
    IF MapHas(ss, id) /\ MapGet(ss, id).state # "ERROR"
    THEN MapSet(ss, id, [MapGet(ss, id) EXCEPT !.state = "CLOSED", !.updatedAt = now])
    ELSE ss

close(ss, id, now) ==
    IF MapHas(ss, id)
    THEN MapSet(ss, id, [MapGet(ss, id) EXCEPT !.state = "CLOSED", !.updatedAt = now])
    ELSE ss

\* an updateState that also restarts the session's createdAt
updateStateRestarting(ss, id, state, now) ==
    IF MapHas(ss, id)
    THEN MapSet(ss, id, [MapGet(ss, id) EXCEPT
                           !.state = state, !.createdAt = now, !.updatedAt = now])
    ELSE ss

\* an updateState that leaves CLOSED and ERROR sessions as they are
updateStateUnlessTerminal(ss, id, state, now) ==
    IF MapHas(ss, id) /\ MapGet(ss, id).state \notin {"CLOSED", "ERROR"}
    THEN MapSet(ss, id, [MapGet(ss, id) EXCEPT !.state = state, !.updatedAt = now])
    ELSE ss

updateState(ss, id, state, now) ==
    IF MapHas(ss, id)
    THEN MapSet(ss, id, [MapGet(ss, id) EXCEPT !.state = state, !.updatedAt = now])
    ELSE ss

\* an updateCapabilities that also makes the session ACTIVE
updateCapabilitiesActivating(ss, id, client, server, now) ==
    IF MapHas(ss, id)
    THEN LET session == MapGet(ss, id)
         IN  MapSet(ss, id,
               [session EXCEPT
                  !.clientCapabilities = IF ObjTruthy(client) THEN client ELSE @,
                  !.serverCapabilities = IF ObjTruthy(server) THEN server ELSE @,
                  !.state = "ACTIVE",
                  !.updatedAt = now])
    ELSE ss

\* an updateCapabilities that assigns both sides, supplied or not
updateCapabilitiesBoth(ss, id, client, server, now) ==
    IF MapHas(ss, id)
    THEN MapSet(ss, id,
           [MapGet(ss, id) EXCEPT
              !.clientCapabilities = client,
              !.serverCapabilities = server,
              !.updatedAt = now])
    ELSE ss

\* an updateCapabilities that touches the session only when a side is supplied
updateCapabilitiesWhenSupplied(ss, id, client, server, now) ==
    IF MapHas(ss, id) /\ (ObjTruthy(client) \/ ObjTruthy(server))
    THEN LET session == MapGet(ss, id)
         IN  MapSet(ss, id,
               [session EXCEPT
                  !.clientCapabilities = IF ObjTruthy(client) THEN client ELSE @,
                  !.serverCapabilities = IF ObjTruthy(server) THEN server ELSE @,
                  !.updatedAt = now])
    ELSE ss

\* client and server are optional; a supplied map is an object, hence truthy
updateCapabilities(ss, id, client, server, now) ==
    IF MapHas(ss, id)
    THEN LET session == MapGet(ss, id)
         IN  MapSet(ss, id,
               [session EXCEPT
                  !.clientCapabilities = IF ObjTruthy(client) THEN client ELSE @,
                  !.serverCapabilities = IF ObjTruthy(server) THEN server ELSE @,
                  !.updatedAt = now])
    ELSE ss

\* this.sessions.size
sessionCount(ss) == Len(ss)

-----------------------------------------------------------------------------
(* Operations of the SessionManager; new Date() reads the clock *)

Create ==
    /\ issued < Len(UuidSeq)
    /\ LET session == createSession(randomUUID(issued), clock, config)
       IN  /\ sessions' = MapSet(sessions, session.id, session)
           /\ last' = Called("create", <<config>>, session)
    /\ issued' = issued + 1
    /\ UNCHANGED <<storeVars, pipeVars, filter, clock, config>>

Get(id) ==
    /\ last' = Called("get", <<id>>, get(sessions, id))
    /\ UNCHANGED <<storeVars, pipeVars, filter, regVars>>

List ==
    /\ last' = Called("list", <<>>, list(sessions))
    /\ UNCHANGED <<storeVars, pipeVars, filter, regVars>>

ListAll ==
    /\ last' = Called("listAll", <<>>, listAll(sessions))
    /\ UNCHANGED <<storeVars, pipeVars, filter, regVars>>

Close(id) ==
    /\ sessions' = close(sessions, id, clock)
    /\ last' = Called("close", <<id>>, None)
    /\ UNCHANGED <<storeVars, pipeVars, filter, clock, issued, config>>

UpdateState(id, state) ==
    /\ sessions' = updateState(sessions, id, state, clock)
    /\ last' = Called("updateState", <<id, state>>, None)
    /\ UNCHANGED <<storeVars, pipeVars, filter, clock, issued, config>>

UpdateCapabilities(id, client, server) ==
    /\ sessions' = updateCapabilities(sessions, id, client, server, clock)
    /\ last' = Called("updateCapabilities", <<id, client, server>>, None)
    /\ UNCHANGED <<storeVars, pipeVars, filter, clock, issued, config>>

\* a delete that marks the session CLOSED and keeps it registered
DeleteMarksClosed(id) ==
    /\ sessions' = close(sessions, id, clock)
    /\ last' = Called("delete", <<id>>, MapHas(sessions, id))
    /\ UNCHANGED <<storeVars, pipeVars, filter, clock, issued, config>>

\* a delete that also clears the session's events from the store
DeleteCascading(id) ==
    /\ sessions' = MapDelete(sessions, id)
    /\ byRequestId' = clearSessionIndex(messages, byRequestId, id)
    /\ messages' = MapDelete(messages, id)
    /\ last' = Called("delete", <<id>>, MapHas(sessions, id))
    /\ UNCHANGED <<pipeVars, filter, clock, issued, config>>

Delete(id) ==
    /\ sessions' = MapDelete(sessions, id)
    /\ last' = Called("delete", <<id>>, MapHas(sessions, id))
    /\ UNCHANGED <<storeVars, pipeVars, filter, clock, issued, config>>

SessionCount ==
    /\ last' = Called("count", <<>>, sessionCount(sessions))
    /\ UNCHANGED <<storeVars, pipeVars, filter, regVars>>

\* time passes between two calls
Tick ==
    /\ clock < MaxTime
    /\ clock' = clock + 1
    /\ UNCHANGED <<storeVars, pipeVars, filter, last, sessions, issued, config>>

-----------------------------------------------------------------------------
(* Handlers: the middlewares a caller registers, by what their body does *)

\* "pass"       before-code; await next(); after-code
\* "store"      messageStore.store(ctx.event); await next()
\* "catch"      before-code; try { await next() } catch {}; after-code
\* "throwAfter" before-code; await next(); after-code that throws
\* "stop"       before-code; returns without calling next
\* "throw"      before-code that throws without calling next
\* "hang"       before-code; awaits a promise that never settles when the
\*              event's method is "block", else await next() and after-code
\* and the handlers that use the context (ContextHandlers, below), which
\* await next() and return
Handlers == {"pass", "store", "catch", "throwAfter", "stop", "throw"}

\* every handler that does not throw goes on to the next one
CallsNextUnlessThrown(kind) == kind # "throw"

\* the handler calls next() (once) before it returns or throws
CallsNext(kind) ==
    kind \in {"pass", "store", "catch", "throwAfter", "hang",
              "setA_v", "setA_undefined", "setB_v", "setB_null", "setB_undefined", "get"}

\* the handler awaits a promise that never settles: the "hang" handler does
\* so, before its await next(), when the event's method is "block"
Hangs(kind, event) == kind = "hang" /\ event.method = Some("block")

\* every handler's await next() swallows the failure
CatchesAlways(kind) == TRUE

\* no handler's try/catch holds the failure: every handler lets it pass
CatchesNever(kind) == FALSE

\* the handler wraps its await next() in a try/catch that swallows the failure
Catches(kind) == kind = "catch"

\* the events handed to process, each with the session that owns it
PipeEvents ==
    { createMessageEvent("e1", 2, "s1", "outbound", JsonRpcRequest(Num(1), "tools/list")) }

\* the process calls that can be in flight at once; a call that has settled
\* makes room for the next
RunIds == {"r1", "r2"}

\* references to middleware arrays: the pipeline's own and one for each call
\* in flight, whose composed function may still hold a replaced array
ArrayRefs == {"a0", "a1", "a2"}

\* the Error object handler p of run r throws
Error(r, p) == [run |-> r, by |-> p]

\* entries of the order a run's handlers record: the code before and after
\* the continuation call of the handler at position p, with the handler's kind
Before(p, kind) == [phase |-> "before", at |-> p, kind |-> kind]
After(p, kind) == [phase |-> "after", at |-> p, kind |-> kind]

-----------------------------------------------------------------------------
(* Context: the extensions of one run, a Map from a key's symbol to a value *)

\* JavaScript values are written as strings: "undefined", "null", the string
\* "v" and the number "42"
Undefined == "undefined"

\* createContextKey(name, defaultValue): the id is a new Symbol(name), which
\* equals no other symbol, also none with the same description
createContextKey(symbol, name, defaultValue) ==
    [id |-> [symbol |-> symbol, description |-> name], defaultValue |-> defaultValue]

\* two keys of the same name, the first without a default, the second with one
KeyA == createContextKey("sym1", "k", Undefined)
KeyB == createContextKey("sym2", "k", "42")
ContextKeys == {KeyA, KeyB}

\* Map.get on the extensions: undefined when the symbol has no entry
extensionsGet(extensions, id) ==
    IF MapHas(extensions, id) THEN MapGet(extensions, id) ELSE Undefined

\* a get that looks the value up by the description of the key's symbol
contextGetByName(extensions, key) ==
    LET hits == {i \in 1..Len(extensions) :
                    extensions[i].key.description = key.id.description}
        value == IF hits = {} THEN Undefined
                 ELSE extensions[CHOOSE i \in hits : TRUE].val
    IN  IF value = Undefined THEN key.defaultValue ELSE value

\* Context.get(key)
contextGet(extensions, key) ==
    LET value == extensionsGet(extensions, key.id)
    IN  IF value = Undefined THEN key.defaultValue ELSE value

\* Context.set(key, value)
contextSet(extensions, key, value) == MapSet(extensions, key.id, value)

\* handlers that use the context:
\* "setA_v" ...  ctx.set(key, value); ctx.get(key); await next()
\* "get"         ctx.get(KeyA); ctx.get(KeyB); await next(); the same again
ContextHandlers ==
    {"setA_v", "setA_undefined", "setB_v", "setB_null", "setB_undefined", "get"}

\* the key and the value a setting handler passes to ctx.set
SetKey(kind) == IF kind \in {"setA_v", "setA_undefined"} THEN KeyA ELSE KeyB
SetValue(kind) ==
    IF kind \in {"setA_v", "setB_v"} THEN "v"
    ELSE IF kind = "setB_null" THEN "null"
    ELSE Undefined

\* entries of the record a run keeps of its handlers' context calls
SetCall(p, key, value) ==
    [op |-> "set", at |-> p, phase |-> "before", key |-> key, value |-> value]
GetCall(p, phase, key, value) ==
    [op |-> "get", at |-> p, phase |-> phase, key |-> key, value |-> value]

\* the two reads of a "get" handler
Reads(extensions, p, phase) ==
    << GetCall(p, phase, KeyA, contextGet(extensions, KeyA)),
       GetCall(p, phase, KeyB, contextGet(extensions, KeyB)) >>

\* the context calls handler p makes before its await next()
ContextBefore(run, p, kind) ==
    IF kind = "get"
    THEN [run EXCEPT !.calls = @ \o Reads(run.extensions, p, "before")]
    ELSE IF kind \in ContextHandlers
    THEN LET extensions == contextSet(run.extensions, SetKey(kind), SetValue(kind))
         IN  [run EXCEPT
                !.extensions = extensions,
                !.calls = @ \o << SetCall(p, SetKey(kind), SetValue(kind)),
                                  GetCall(p, "before", SetKey(kind),
                                          contextGet(extensions, SetKey(kind))) >>]
    ELSE run

\* the context calls handler p makes after its await next() returned
ContextAfter(run, p, kind) ==
    IF kind = "get"
    THEN [run EXCEPT !.calls = @ \o Reads(run.extensions, p, "after")]
    ELSE run

-----------------------------------------------------------------------------
(* MiddlewarePipeline and the composed function *)

\* a process call that has not been made yet
Idle ==
    [status |-> "idle", event |-> None, session |-> None, extensions |-> <<>>,
     mw |-> "a0", index |-> 0, stack |-> <<>>, pc |-> "none", err |-> None,
     trace |-> <<>>, base |-> 0, calls |-> <<>>, chain |-> <<>>]

\* a context that starts with the extensions of another process call
NewRunSharedExtensions(event, session, mw, base) ==
    LET others == {q \in RunIds : runs[q].extensions # <<>>}
    IN  [status |-> "running", event |-> Some(event), session |-> Some(session),
         extensions |-> IF others = {} THEN <<>>
                        ELSE runs[CHOOSE q \in others : TRUE].extensions,
         mw |-> mw, index |-> 0, stack |-> <<>>, pc |-> "call",
         err |-> None, trace |-> <<>>, base |-> base, calls |-> <<>>,
     chain |-> arrays[mw]]

\* new Context(event, session), and the composed function's call frame:
\* mw is the array the closure captured, index the last dispatched position;
\* base is the store's count() as the caller reads it before the call, and
\* chain the handlers the array held when the call was made
NewRun(event, session, mw, base) ==
    [status |-> "running", event |-> Some(event), session |-> Some(session),
     extensions |-> <<>>, mw |-> mw, index |-> 0, stack |-> <<>>, pc |-> "call",
     err |-> None, trace |-> <<>>, base |-> base, calls |-> <<>>,
     chain |-> arrays[mw]]

\* the handler that suspended first is resumed first
AwaiterFirst(stack) == stack[1]

\* the handler whose await next() is resumed: the one that suspended last
Awaiter(stack) == stack[Len(stack)]

\* the position dispatch is called with: 1 by the composed function, and
\* one past its own position by a handler's next
NextPosition(run) ==
    IF run.stack = <<>> THEN 1 ELSE run.stack[Len(run.stack)] + 1

\* the call frame after handler p, of the given kind, ran up to its await
\* next(), its return or its throw
Invoked(r, run, p, kind) ==
    LET seen == ContextBefore(
                  [run EXCEPT !.index = p, !.trace = Append(@, Before(p, kind))],
                  p, kind)
    IN  IF Hangs(kind, run.event[1])
        THEN [seen EXCEPT !.pc = "hung"]
        ELSE IF CallsNext(kind)
        THEN [seen EXCEPT !.stack = Append(@, p), !.pc = "call"]
        ELSE IF kind = "stop"
        THEN [seen EXCEPT !.pc = "ret"]
        ELSE [seen EXCEPT !.pc = "exc", !.err = Some(Error(r, p))]

\* dispatch(p) of the composed function, on the array as it is now
Dispatched(r, run, array) ==
    LET p == NextPosition(run)
    IN  IF p <= run.index
        THEN [run EXCEPT !.pc = "exc", !.err = Some("next() called multiple times")]
        ELSE IF p > Len(array)
        THEN [run EXCEPT !.index = p, !.pc = "ret"]
        ELSE Invoked(r, run, p, array[p])

\* the handler dispatch(p) invokes stores the run's event
DispatchStores(run, array) ==
    LET p == NextPosition(run)
    IN  p > run.index /\ p <= Len(array) /\ array[p] = "store"

\* a store handler that writes back the log its call saw when it started,
\* with the events the call itself stored since, and its event
DispatchEffectLostUpdate(run, array) ==
    IF DispatchStores(run, array)
    THEN LET e == run.event[1]
             log == getBySession(messages, e.sessionId)
             own == Len(SelectSeq(run.trace,
                                  LAMBDA x : x.phase = "before" /\ x.kind = "store"))
         IN  /\ messages' =
                   MapSet(messages, e.sessionId,
                          Append(SubSeq(log, 1, run.base) \o [i \in 1..own |-> e], e))
             /\ byRequestId' = storeIndex(byRequestId, e)
    ELSE UNCHANGED storeVars

\* the store after dispatch(p)
DispatchEffect(run, array) ==
    IF DispatchStores(run, array)
    THEN /\ messages' = storeMessages(messages, run.event[1])
         /\ byRequestId' = storeIndex(byRequestId, run.event[1])
    ELSE UNCHANGED storeVars

\* the call frame after the awaiting handler resumed with the settled promise
\* of its next(): it runs its after-code, or lets the failure pass through it
Resumed(r, run, kind) ==
    LET p == Awaiter(run.stack)
        popped == [run EXCEPT !.stack = SubSeq(@, 1, Len(@) - 1)]
        after == ContextAfter(
                   [popped EXCEPT !.trace = Append(@, After(p, kind))], p, kind)
    IN  IF run.pc = "ret"
        THEN IF kind = "throwAfter"
             THEN [after EXCEPT !.pc = "exc", !.err = Some(Error(r, p))]
             ELSE after
        ELSE IF Catches(kind)
             THEN [after EXCEPT !.pc = "ret", !.err = None]
             ELSE popped

\* a use that puts the handler into a copy of the array and keeps the
\* composed function
UseCopyKeepsCache(kind) ==
    /\ Len(arrays[middlewares]) < MaxHandlers
    /\ \E a \in ArrayRefs :
          /\ a # middlewares
          /\ composedFn # Some(a)
          /\ \A r \in RunIds : runs[r].status = "running" => runs[r].mw # a
          /\ middlewares' = a
          /\ arrays' = [arrays EXCEPT ![a] = Append(arrays[middlewares], kind)]
    /\ UNCHANGED <<composedFn, runs, storeVars, filter, last, regVars>>

\* use(middleware)
Use(kind) ==
    /\ Len(arrays[middlewares]) < MaxHandlers
    /\ arrays' = [arrays EXCEPT ![middlewares] = Append(@, kind)]
    /\ composedFn' = None
    /\ UNCHANGED <<middlewares, runs, storeVars, filter, last, regVars>>

\* the arrays a composed function in flight still reads
Referenced == {runs[r].mw : r \in {q \in RunIds : runs[q].status = "running"}}

\* clear() of the pipeline: this.middlewares is a new empty array, while the
\* composed functions in flight keep the array they captured; an array that
\* no composed function in flight holds is garbage
PipelineClear ==
    /\ \E a \in ArrayRefs \ (Referenced \cup {middlewares}) :
          /\ a = CHOOSE b \in ArrayRefs \ (Referenced \cup {middlewares}) : TRUE
          /\ middlewares' = a
          /\ arrays' = [b \in ArrayRefs |->
                          IF b \in Referenced THEN arrays[b] ELSE <<>>]
    /\ composedFn' = None
    /\ UNCHANGED <<runs, storeVars, filter, last, regVars>>

\* process(event, session): the context, run's compose, and dispatch of the
\* first handler up to its first suspension
Process(r, event, session) ==
    /\ runs[r].status # "running"
    /\ composedFn' = IF composedFn = None THEN Some(middlewares) ELSE composedFn
    /\ LET run == NewRun(event, session, composedFn'[1], count(messages))
       IN  /\ DispatchStores(run, arrays[run.mw]) => count(messages) < MaxEvents
           /\ runs' = [runs EXCEPT ![r] = Dispatched(r, run, arrays[run.mw])]
           /\ DispatchEffect(run, arrays[run.mw])
    /\ UNCHANGED <<arrays, middlewares, filter, last, regVars>>

\* a next() whose composed function shares its index among the calls in flight
CallNextSharedIndex(r) ==
    /\ runs[r].status = "running"
    /\ runs[r].pc = "call"
    /\ DispatchStores(runs[r], arrays[runs[r].mw]) => count(messages) < MaxEvents
    /\ LET shared == CHOOSE n \in {runs[q].index : q \in RunIds} :
                         \A q \in RunIds : runs[q].index <= n
       IN  runs' = [runs EXCEPT ![r] =
                      Dispatched(r, [runs[r] EXCEPT !.index = shared],
                                 arrays[runs[r].mw])]
    /\ DispatchEffect(runs[r], arrays[runs[r].mw])
    /\ UNCHANGED <<arrays, middlewares, composedFn, filter, last, regVars>>

\* the suspended handler of run r calls next()
CallNext(r) ==
    /\ runs[r].status = "running"
    /\ runs[r].pc = "call"
    /\ DispatchStores(runs[r], arrays[runs[r].mw]) => count(messages) < MaxEvents
    /\ runs' = [runs EXCEPT ![r] = Dispatched(r, runs[r], arrays[runs[r].mw])]
    /\ DispatchEffect(runs[r], arrays[runs[r].mw])
    /\ UNCHANGED <<arrays, middlewares, composedFn, filter, last, regVars>>

\* the promise a handler of run r awaits has settled: the handler resumes
Resume(r) ==
    /\ runs[r].status = "running"
    /\ runs[r].pc \in {"ret", "exc"}
    /\ runs[r].stack # <<>>
    /\ runs' = [runs EXCEPT ![r] =
                  Resumed(r, runs[r], arrays[runs[r].mw][Awaiter(runs[r].stack)])]
    /\ UNCHANGED <<arrays, middlewares, composedFn, storeVars, filter, last, regVars>>

\* a Settle that undoes the run's store calls when the run failed
SettleRollback(r) ==
    /\ runs[r].status = "running"
    /\ runs[r].pc \in {"ret", "exc"}
    /\ runs[r].stack = <<>>
    /\ runs' = [runs EXCEPT ![r].status =
                  IF runs[r].pc = "ret" THEN "resolved" ELSE "rejected"]
    /\ messages' = IF runs[r].pc = "exc"
                   THEN MapDelete(messages, runs[r].event[1].sessionId)
                   ELSE messages
    /\ UNCHANGED <<arrays, middlewares, composedFn, byRequestId, filter, last, regVars>>

\* a Settle that waits until no other process call is in flight
SettleWhenAlone(r) ==
    /\ runs[r].status = "running"
    /\ runs[r].pc \in {"ret", "exc"}
    /\ runs[r].stack = <<>>
    /\ \A q \in RunIds \ {r} : runs[q].status # "running"
    /\ runs' = [runs EXCEPT ![r].status =
                  IF runs[r].pc = "ret" THEN "resolved" ELSE "rejected"]
    /\ UNCHANGED <<arrays, middlewares, composedFn, storeVars, filter, last, regVars>>

\* the composed function's promise has settled: run and process settle with it
Settle(r) ==
    /\ runs[r].status = "running"
    /\ runs[r].pc \in {"ret", "exc"}
    /\ runs[r].stack = <<>>
    /\ runs' = [runs EXCEPT ![r].status =
                  IF runs[r].pc = "ret" THEN "resolved" ELSE "rejected"]
    /\ UNCHANGED <<arrays, middlewares, composedFn, storeVars, filter, last, regVars>>

-----------------------------------------------------------------------------
(* Specifications *)

Init ==
    /\ messages = <<>>
    /\ byRequestId = <<>>
    /\ arrays = [a \in ArrayRefs |-> <<>>]
    /\ middlewares = "a0"
    /\ composedFn = None
    /\ runs = [r \in RunIds |-> Idle]
    /\ filter = NoFilter
    /\ sessions = <<>>
    /\ clock = 0
    /\ issued = 0
    /\ config = DefaultConfig
    /\ last = Called("new", <<>>, None)

\* the store under store, lookup, correlation and clearing
NextStore ==
    \/ \E e \in StoreEvents : Store(e)
    \/ \E s \in SessionIds : GetBySession(s)
    \/ \E s \in SessionIds, r \in RequestIds : GetByRequestId(s, r)
    \/ \E s \in SessionIds, r \in RequestIds : Correlate(s, r)
    \/ \E s \in SessionIds : CountBySession(s)
    \/ Count
    \/ \E s \in SessionIds : ClearSession(s)
    \/ Clear

SpecStore == Init /\ [][NextStore]_vars

\* the store under store, query and clearing
NextQuery ==
    \/ \E e \in QueryEvents : Store(e)
    \/ Query
    \/ \E s \in SessionIds : ClearSession(s)
    \/ Clear

\* the pipeline under use and process calls
NextPipeline ==
    \/ \E kind \in Handlers : Use(kind)
    \/ \E r \in RunIds, e \in PipeEvents : Process(r, e, e.sessionId)
    \/ \E r \in RunIds : CallNext(r)
    \/ \E r \in RunIds : Resume(r)
    \/ \E r \in RunIds : Settle(r)

SpecPipeline == Init /\ [][NextPipeline]_vars

\* one process call at a time on a pipeline of handlers that use the context
NextContext ==
    \/ \E kind \in ContextHandlers : Use(kind)
    \/ \E e \in PipeEvents : Process("r1", e, e.sessionId)
    \/ CallNext("r1")
    \/ Resume("r1")
    \/ Settle("r1")

SpecContext == Init /\ [][NextContext]_vars

\* the caller's filter is any of Filters
InitQuery ==
    /\ messages = <<>>
    /\ byRequestId = <<>>
    /\ arrays = [a \in ArrayRefs |-> <<>>]
    /\ middlewares = "a0"
    /\ composedFn = None
    /\ runs = [r \in RunIds |-> Idle]
    /\ filter \in Filters
    /\ sessions = <<>>
    /\ clock = 0
    /\ issued = 0
    /\ config = DefaultConfig
    /\ last = Called("new", <<>>, None)

SpecQuery == InitQuery /\ [][NextQuery]_vars

\* the registry over the lifetime of its sessions
NextRegistry ==
    \/ Create
    \/ \E id \in Ids : Get(id)
    \/ List
    \/ ListAll
    \/ \E id \in Ids : Close(id)
    \/ \E id \in Ids, state \in SessionStates : UpdateState(id, state)
    \/ \E id \in Ids, client \in Opt(Capabilities) : UpdateCapabilities(id, client, None)
    \/ \E id \in Ids : Delete(id)
    \/ SessionCount
    \/ Tick

SpecRegistry == Init /\ [][NextRegistry]_vars

\* the registry under updateCapabilities with either side supplied or not
NextCapabilities ==
    \/ Create
    \/ \E id \in Ids : Close(id)
    \/ \E id \in Ids, client \in Opt(CapabilityMaps), server \in Opt(Capabilities) :
          UpdateCapabilities(id, client, server)
    \/ Tick

SpecCapabilities == Init /\ [][NextCapabilities]_vars

\* the caller's config is any of Configs
InitCreate ==
    /\ messages = <<>>
    /\ byRequestId = <<>>
    /\ arrays = [a \in ArrayRefs |-> <<>>]
    /\ middlewares = "a0"
    /\ composedFn = None
    /\ runs = [r \in RunIds |-> Idle]
    /\ filter = NoFilter
    /\ sessions = <<>>
    /\ clock = 0
    /\ issued = 0
    /\ config \in Configs
    /\ last = Called("new", <<>>, None)

\* the registry under create, the reads and delete
NextCreate ==
    \/ Create
    \/ \E id \in Ids : Get(id)
    \/ ListAll
    \/ \E id \in Ids : Delete(id)
    \/ SessionCount
    \/ Tick

SpecCreate == InitCreate /\ [][NextCreate]_vars

-----------------------------------------------------------------------------
(* Properties of the MessageStore *)

\* the events a session's log holds, as the store has them
LogOf(s) == getBySession(messages, s)

\* the positions of a log whose event has direction d and requestId r
Positions(log, d, r) ==
    {i \in 1..Len(log) : log[i].direction = d /\ log[i].requestId = Some(r)}

Least(S) == CHOOSE i \in S : \A j \in S : i <= j

\* how often event e occurs in the sequence s
Occ(s, e) == Cardinality({i \in 1..Len(s) : s[i] = e})

\* C5: a store call appends its event at the end of its session's
\* getBySession result and leaves every other session's result as it was, so
\* getBySession returns the session's events in the order of the store calls.
C5_AppendPreservesOrder ==
    [][last'.op = "store" =>
         LET e == last'.args[1]
         IN  \A s \in SessionIds :
               getBySession(messages', s) =
                  IF s = e.sessionId
                  THEN Append(getBySession(messages, s), e)
                  ELSE getBySession(messages, s)]_vars

\* C5 witness: a store call for s1 after events of s1 and of s2 were stored
C5_Witness ==
    /\ last.op = "store"
    /\ last.args[1].sessionId = "s1"
    /\ Len(LogOf("s1")) >= 2
    /\ Len(LogOf("s2")) >= 1

\* C6: the request of correlate is the first outbound event of the session's
\* log with that requestId; with no such event the result is absent, also when
\* inbound events with that requestId are stored.
C6_RequestIsFirstOutbound ==
    last.op = "correlate" =>
        LET log == LogOf(last.args[1])
            out == Positions(log, "outbound", last.args[2])
        IN  IF out = {}
            THEN last.out = None
            ELSE /\ last.out # None
                 /\ last.out[1].request = log[Least(out)]
                 /\ last.out[1].request.direction = "outbound"

\* C6 witness: correlate is absent although an inbound event has the requestId
C6_Witness ==
    /\ last.op = "correlate"
    /\ last.out = None
    /\ Positions(LogOf(last.args[1]), "inbound", last.args[2]) # {}

\* C7: when correlate finds a request, its response is the first inbound event
\* of the session's log with that requestId, and absent when there is none.
C7_ResponseIsFirstInbound ==
    (last.op = "correlate" /\ last.out # None) =>
        LET log == LogOf(last.args[1])
            inb == Positions(log, "inbound", last.args[2])
        IN  IF inb = {}
            THEN last.out[1].response = None
            ELSE /\ last.out[1].response = Some(log[Least(inb)])
                 /\ last.out[1].response[1].direction = "inbound"
                 /\ last.out[1].response[1].requestId = Some(last.args[2])

\* C7 witness: two outbound events share the requestId, an inbound event has
\* another requestId, and the response is absent
C7_Witness ==
    /\ last.op = "correlate"
    /\ last.out # None
    /\ last.out[1].response = None
    /\ Cardinality(Positions(LogOf(last.args[1]), "outbound", last.args[2])) >= 2
    /\ \E i \in 1..Len(LogOf(last.args[1])) :
          LogOf(last.args[1])[i].direction = "inbound"

\* C8: latencyMs is present exactly when the response is, and is then the
\* response's timestamp minus the request's.
C8_LatencyIsResponseMinusRequest ==
    (last.op = "correlate" /\ last.out # None) =>
        LET pair == last.out[1]
        IN  /\ (pair.latencyMs # None) <=> (pair.response # None)
            /\ pair.response # None =>
                 pair.latencyMs =
                    Some(pair.response[1].timestamp - pair.request.timestamp)

\* C8 witness: the response was captured before the request, a negative latency
C8_Witness ==
    /\ last.op = "correlate"
    /\ last.out # None
    /\ last.out[1].latencyMs # None
    /\ last.out[1].latencyMs[1] < 0

\* an event satisfies every supplied field of the filter
Satisfies(m, f) ==
    /\ f.sessionId # None => m.sessionId = f.sessionId[1]
    /\ f.direction # None => m.direction = f.direction[1]
    /\ f.method # None => m.method = f.method
    /\ f.hasError # None => (PayloadHasError(m) <=> f.hasError[1])
    /\ f.startTime # None => m.timestamp >= f.startTime[1]
    /\ f.endTime # None => m.timestamp <= f.endTime[1]

\* C9: query returns exactly the stored events that satisfy every supplied
\* field of the filter, whatever the supplied values are.
C9_QueryIsConjunction ==
    last.op = "query" =>
        \A e \in QueryEvents :
            Occ(last.out, e) =
               IF Satisfies(e, last.args[1]) THEN Occ(Flat(messages), e) ELSE 0

\* only the time bounds of the filter are supplied
OnlyTimes(f) ==
    f.sessionId = None /\ f.direction = None /\ f.method = None /\ f.hasError = None

\* the time bounds of the filter admit the timestamp, both ends included
WithinTimes(t, f) ==
    /\ f.startTime # None => t >= f.startTime[1]
    /\ f.endTime # None => t <= f.endTime[1]

\* C10: no event outside the time bounds is returned, and a query with only
\* time bounds returns every stored event within them, the events exactly at
\* startTime and exactly at endTime included.
C10_TimeBoundsInclusive ==
    last.op = "query" =>
        LET f == last.args[1]
        IN  /\ \A i \in 1..Len(last.out) : WithinTimes(last.out[i].timestamp, f)
            /\ OnlyTimes(f) =>
                 \A e \in QueryEvents :
                    WithinTimes(e.timestamp, f) =>
                       Occ(last.out, e) = Occ(Flat(messages), e)

\* C10 witness: a query with startTime = endTime = t returns an event at t
\* while events before and after t are stored
C10_Witness ==
    /\ last.op = "query"
    /\ OnlyTimes(last.args[1])
    /\ last.args[1].startTime # None
    /\ last.args[1].endTime = last.args[1].startTime
    /\ Len(last.out) >= 1
    /\ \E i \in 1..Len(Flat(messages)) :
          Flat(messages)[i].timestamp < last.args[1].startTime[1]
    /\ \E i \in 1..Len(Flat(messages)) :
          Flat(messages)[i].timestamp > last.args[1].endTime[1]

\* the store as it was when the last call was made
PreLog(s) == getBySession(last.pre.messages, s)

\* the event of a log stored last among those carrying requestId r
MostRecent(log, r) ==
    LET hits == {i \in 1..Len(log) : log[i].requestId = Some(r)}
    IN  IF hits = {}
        THEN None
        ELSE Some(log[CHOOSE i \in hits : \A j \in hits : j <= i])

\* C11: getByRequestId(s, r) returns the event stored last among the events
\* of session s that carry requestId r, whatever their directions, and absent
\* when the session's log holds no such event.
C11_LookupIsMostRecent ==
    last.op = "getByRequestId" =>
        last.out = MostRecent(LogOf(last.args[1]), last.args[2])

\* C12: getByRequestId(s, r) returns an event only if an event with exactly
\* this sessionId and this requestId (value and type) is stored, the returned
\* event then carries sessionId s and requestId r, and otherwise it is absent.
C12_LookupIsExact ==
    last.op = "getByRequestId" =>
        LET s == last.args[1]
            r == last.args[2]
        IN  IF \E i \in 1..Len(LogOf(s)) : LogOf(s)[i].requestId = Some(r)
            THEN /\ last.out # None
                 /\ last.out[1].sessionId = s
                 /\ last.out[1].requestId = Some(r)
            ELSE last.out = None

\* C13: after clearSession(s) the session's log is empty, its count is 0 and
\* getByRequestId(s, r) and correlate(s, r) are absent for every r; when the
\* session had no events the store is as it was before the call.
C13_ClearSessionRemovesAll ==
    last.op = "clearSession" =>
        LET s == last.args[1]
        IN  /\ getBySession(messages, s) = <<>>
            /\ countBySession(messages, s) = 0
            /\ \A r \in RequestIds :
                  /\ getByRequestId(byRequestId, s, r) = None
                  /\ correlate(messages, s, r) = None
            /\ PreLog(s) = <<>> =>
                  /\ messages = last.pre.messages
                  /\ byRequestId = last.pre.byRequestId

\* C13 witness: the cleared session's log began with an event without a
\* requestId, held events with a requestId after it, and another session
\* still has its events
C13_Witness ==
    /\ last.op = "clearSession"
    /\ Len(PreLog(last.args[1])) >= 2
    /\ PreLog(last.args[1])[1].requestId = None
    /\ PreLog(last.args[1])[2].requestId # None
    /\ last.pre.byRequestId # <<>>
    /\ messages # <<>>

\* C14: after clear() count() is 0, every session's log is empty, every
\* getByRequestId and correlate is absent, and the store is in the state of a
\* new MessageStore, so that later store calls act as on a fresh store.
C14_ClearIsFresh ==
    last.op = "clear" =>
        /\ count(messages) = 0
        /\ \A s \in SessionIds :
              /\ getBySession(messages, s) = <<>>
              /\ \A r \in RequestIds :
                    /\ getByRequestId(byRequestId, s, r) = None
                    /\ correlate(messages, s, r) = None
        /\ messages = <<>>
        /\ byRequestId = <<>>

\* C14 witness: clear() was called on a store with events of two sessions and
\* requestId index entries
C14_Witness ==
    /\ last.op = "clear"
    /\ Len(PreLog("s1")) >= 1
    /\ Len(PreLog("s2")) >= 1
    /\ Len(last.pre.byRequestId) >= 2

\* C30: a store(event) leaves every other session's log, count, lookups and
\* correlations as they were before the call.
C30_StoreLeavesOtherSessions ==
    last.op = "store" =>
        \A s \in SessionIds \ {last.args[1].sessionId} :
            /\ getBySession(messages, s) = PreLog(s)
            /\ countBySession(messages, s) = countBySession(last.pre.messages, s)
            /\ \A r \in RequestIds :
                  /\ getByRequestId(byRequestId, s, r) =
                        getByRequestId(last.pre.byRequestId, s, r)
                  /\ correlate(messages, s, r) = correlate(last.pre.messages, s, r)

\* C30 witness: an event with requestId 1 was stored for s2 while s1 has an
\* event indexed under the same requestId
C30_Witness ==
    /\ last.op = "store"
    /\ last.args[1].sessionId = "s2"
    /\ last.args[1].requestId = Some(Num(1))
    /\ getByRequestId(byRequestId, "s1", Num(1)) # None
    /\ getByRequestId(byRequestId, "s1", Num(1))[1].sessionId = "s1"
    /\ getByRequestId(byRequestId, "s2", Num(1)) = Some(last.args[1])

-----------------------------------------------------------------------------
(* Properties of the SessionManager *)

\* the session registered under id when the last call was made
PreSession(id) == get(last.pre.sessions, id)

\* the ids crypto.randomUUID() returned before the last one
IssuedBefore == {UuidSeq[n] : n \in 1..(issued - 1)}

\* a config the ServerConfig contract accepts: a name, a transport of the
\* closed set, and the field its transport needs
ValidConfig(cfg) ==
    /\ cfg.name # ""
    /\ cfg.transport \in {"stdio", "http"}
    /\ cfg.transport = "stdio" => cfg.command # None
    /\ cfg.transport = "http" => cfg.url # None

\* C15: create(config) with a valid config returns a session in state
\* CREATED with createdAt = updatedAt and the given config, registers it so
\* that get(id) yields that session, and count() is one higher than before.
C15_CreateRegistersCreated ==
    (last.op = "create" /\ ValidConfig(last.args[1])) =>
        /\ last.out.state = "CREATED"
        /\ last.out.createdAt = last.out.updatedAt
        /\ last.out.createdAt = last.pre.clock
        /\ last.out.config = last.args[1]
        /\ get(sessions, last.out.id) = Some(last.out)
        /\ sessionCount(sessions) = sessionCount(last.pre.sessions) + 1

\* C15 witness: a second create with a valid config, later than the first
C15_Witness ==
    /\ last.op = "create"
    /\ ValidConfig(last.args[1])
    /\ last.pre.sessions # <<>>
    /\ last.out.createdAt > last.pre.sessions[1].val.createdAt

\* C16: the registered sessions have pairwise different ids, each under its
\* own id, and a create returns an id no earlier create returned and leaves
\* every session registered before as it was.
C16_IdsUnique ==
    /\ \A i, j \in 1..Len(sessions) :
          sessions[i].val.id = sessions[j].val.id => i = j
    /\ \A i \in 1..Len(sessions) : sessions[i].key = sessions[i].val.id
    /\ last.op = "create" =>
          /\ last.out.id \notin IssuedBefore
          /\ PreSession(last.out.id) = None
          /\ \A i \in 1..Len(last.pre.sessions) :
                get(sessions, last.pre.sessions[i].key) =
                   Some(last.pre.sessions[i].val)

\* C16 witness: a second create with the very config of the session that is
\* registered
C16_Witness ==
    /\ last.op = "create"
    /\ Len(last.pre.sessions) = 1
    /\ last.pre.sessions[1].val.config = last.args[1]
    /\ Len(sessions) = 2

\* C17: create(config) with an empty name, a transport outside {stdio, http}
\* or a missing transport-specific field fails with a ValidationError: it
\* returns no session and registers none.
C17_InvalidConfigRejected ==
    (last.op = "create" /\ ~ValidConfig(last.args[1])) =>
        /\ "id" \notin DOMAIN last.out
        /\ sessions = last.pre.sessions

\* C18: list() is exactly the registered sessions that are neither CLOSED nor
\* ERROR, and listAll() is every registered session whatever its state.
C18_ListExcludesClosedAndError ==
    /\ \A i \in 1..Len(sessions) :
          LET session == sessions[i].val
          IN  /\ Occ(listAll(sessions), session) = 1
              /\ Occ(list(sessions), session) =
                    IF session.state \in {"CLOSED", "ERROR"} THEN 0 ELSE 1
    /\ Len(listAll(sessions)) = sessionCount(sessions)
    /\ \A i \in 1..Len(list(sessions)) :
          Occ(Values(sessions), list(sessions)[i]) = 1
    /\ last.op = "list" => last.out = list(sessions)
    /\ last.op = "listAll" => last.out = listAll(sessions)

\* C18 witness: list() returned one session while another one is in ERROR
C18_Witness ==
    /\ last.op = "list"
    /\ Len(last.out) = 1
    /\ Len(sessions) = 2
    /\ \E i \in 1..2 : sessions[i].val.state = "ERROR"

\* a session differs from another one at most in state and updatedAt
SameButStateAndTime(a, b) ==
    [a EXCEPT !.state = b.state, !.updatedAt = b.updatedAt] = b

\* every session but the one under id is registered as before the last call
OthersUnchanged(id) ==
    /\ Len(sessions) = Len(last.pre.sessions)
    /\ \A i \in 1..Len(sessions) :
          sessions[i].key # id => sessions[i] = last.pre.sessions[i]

\* C19: close(id) on a registered session sets its state to CLOSED from
\* every state and updatedAt to the time of the call; the session stays in
\* get and listAll and count() is unchanged; on an unknown id the registry
\* stays as it was.
C19_CloseSetsClosed ==
    last.op = "close" =>
        LET id == last.args[1]
        IN  IF PreSession(id) # None
            THEN /\ get(sessions, id) # None
                 /\ get(sessions, id)[1].state = "CLOSED"
                 /\ get(sessions, id)[1].updatedAt = last.pre.clock
                 /\ get(sessions, id)[1].updatedAt >= PreSession(id)[1].updatedAt
                 /\ SameButStateAndTime(PreSession(id)[1], get(sessions, id)[1])
                 /\ Occ(listAll(sessions), get(sessions, id)[1]) = 1
                 /\ sessionCount(sessions) = sessionCount(last.pre.sessions)
                 /\ OthersUnchanged(id)
            ELSE sessions = last.pre.sessions

\* C19 witness: close of a session in ERROR, later than its last update,
\* while another session is registered
C19_Witness ==
    /\ last.op = "close"
    /\ PreSession(last.args[1]) # None
    /\ PreSession(last.args[1])[1].state = "ERROR"
    /\ PreSession(last.args[1])[1].updatedAt < last.pre.clock
    /\ Len(sessions) = 2

\* C20: updateState(id, s) on a registered session sets its state to s from
\* every state and updatedAt to the time of the call; on an unknown id the
\* registry stays as it was.
C20_UpdateStateOverwrites ==
    last.op = "updateState" =>
        LET id == last.args[1]
        IN  IF PreSession(id) # None
            THEN /\ get(sessions, id) # None
                 /\ get(sessions, id)[1].state = last.args[2]
                 /\ get(sessions, id)[1].updatedAt = last.pre.clock
                 /\ get(sessions, id)[1].updatedAt >= PreSession(id)[1].updatedAt
                 /\ SameButStateAndTime(PreSession(id)[1], get(sessions, id)[1])
                 /\ OthersUnchanged(id)
            ELSE sessions = last.pre.sessions

\* C20 witness: updateState makes a CLOSED session ACTIVE, later than its
\* last update
C20_Witness ==
    /\ last.op = "updateState"
    /\ PreSession(last.args[1]) # None
    /\ PreSession(last.args[1])[1].state = "CLOSED"
    /\ last.args[2] = "ACTIVE"
    /\ get(sessions, last.args[1])[1].state = "ACTIVE"
    /\ PreSession(last.args[1])[1].updatedAt < last.pre.clock

\* the session under id is registered now and was when the last call was made
Kept(id) == PreSession(id) # None /\ get(sessions, id) # None

\* C21 as stated: a session that is CLOSED is not ACTIVE after the next
\* Registry operation, whichever it is, so it never becomes ACTIVE again.
C21_ClosedIsTerminal ==
    [][\A id \in Ids :
         (get(sessions, id) # None /\ get(sessions', id) # None
            /\ get(sessions, id)[1].state = "CLOSED")
         => get(sessions', id)[1].state # "ACTIVE"]_vars

\* C21: the registry keeps a CLOSED session CLOSED under every operation but
\* updateState, which records the requested state, ACTIVE included.
C21_ClosedLeftOnlyByUpdateState ==
    \A id \in Ids :
        (Kept(id) /\ PreSession(id)[1].state = "CLOSED") =>
            \/ get(sessions, id)[1].state = "CLOSED"
            \/ /\ last.op = "updateState"
               /\ last.args = <<id, get(sessions, id)[1].state>>

\* C21 witness: updateState(id, ACTIVE) on a CLOSED session made it ACTIVE
\* while the other session stays CLOSED
C21_Witness ==
    /\ last.op = "updateState"
    /\ Kept(last.args[1])
    /\ PreSession(last.args[1])[1].state = "CLOSED"
    /\ get(sessions, last.args[1])[1].state = "ACTIVE"
    /\ \E i \in 1..Len(sessions) :
          sessions[i].key # last.args[1] /\ sessions[i].val.state = "CLOSED"

\* C22: updateCapabilities on a registered session replaces each side exactly
\* when it is supplied, keeps the other side and the state, and sets updatedAt
\* to the time of the call; on an unknown id the registry stays as it was.
C22_CapabilitiesReplaceSupplied ==
    last.op = "updateCapabilities" =>
        LET id == last.args[1]
            client == last.args[2]
            server == last.args[3]
        IN  IF PreSession(id) # None
            THEN /\ get(sessions, id) # None
                 /\ LET old == PreSession(id)[1]
                        new == get(sessions, id)[1]
                    IN  /\ new.clientCapabilities =
                              IF client # None THEN client ELSE old.clientCapabilities
                        /\ new.serverCapabilities =
                              IF server # None THEN server ELSE old.serverCapabilities
                        /\ new.state = old.state
                        /\ new.updatedAt = last.pre.clock
                        /\ new.updatedAt >= old.updatedAt
                        /\ [old EXCEPT !.clientCapabilities = new.clientCapabilities,
                                       !.serverCapabilities = new.serverCapabilities,
                                       !.updatedAt = new.updatedAt] = new
                 /\ OthersUnchanged(id)
            ELSE sessions = last.pre.sessions

\* C22 witness: only the client side is supplied, with the empty map, on a
\* CLOSED session that has both sides set
C22_Witness ==
    /\ last.op = "updateCapabilities"
    /\ last.args[2] = Some("{}")
    /\ last.args[3] = None
    /\ Kept(last.args[1])
    /\ PreSession(last.args[1])[1].state = "CLOSED"
    /\ PreSession(last.args[1])[1].clientCapabilities = Some("{tools}")
    /\ PreSession(last.args[1])[1].serverCapabilities = Some("caps")
    /\ get(sessions, last.args[1])[1].clientCapabilities = Some("{}")
    /\ get(sessions, last.args[1])[1].serverCapabilities = Some("caps")

\* C23: delete(id) returns whether a session is registered under id; then
\* get(id) is absent, list() and listAll() are without the session, count()
\* is one lower and the other sessions are as before; close, updateState and
\* updateCapabilities on an id that is not registered change nothing.
C23_DeleteRemoves ==
    /\ last.op = "delete" =>
          LET id == last.args[1]
          IN  /\ last.out = (PreSession(id) # None)
              /\ get(sessions, id) = None
              /\ \A i \in 1..Len(listAll(sessions)) : listAll(sessions)[i].id # id
              /\ \A i \in 1..Len(list(sessions)) : list(sessions)[i].id # id
              /\ sessionCount(sessions) =
                    sessionCount(last.pre.sessions) - (IF last.out THEN 1 ELSE 0)
              /\ sessions = MapDelete(last.pre.sessions, id)
              /\ ~last.out => sessions = last.pre.sessions
    /\ (last.op \in {"close", "updateState", "updateCapabilities"}
          /\ PreSession(last.args[1]) = None) => sessions = last.pre.sessions

\* C23 witness: delete of the first of two registered sessions returned true
C23_Witness ==
    /\ last.op = "delete"
    /\ last.out
    /\ Len(last.pre.sessions) = 2
    /\ last.pre.sessions[1].key = last.args[1]
    /\ Len(sessions) = 1

\* C24: every registered session has updatedAt >= createdAt, and a session
\* that stays registered keeps its id, createdAt and config.
C24_CreatedBeforeUpdated ==
    /\ \A i \in 1..Len(sessions) :
          sessions[i].val.updatedAt >= sessions[i].val.createdAt
    /\ \A id \in Ids :
          Kept(id) =>
             /\ get(sessions, id)[1].id = PreSession(id)[1].id
             /\ get(sessions, id)[1].createdAt = PreSession(id)[1].createdAt
             /\ get(sessions, id)[1].config = PreSession(id)[1].config

\* C24 witness: a session was updated later than it was created, after
\* another session was created at that later time
C24_Witness ==
    /\ last.op = "updateState"
    /\ Kept(last.args[1])
    /\ get(sessions, last.args[1])[1].updatedAt >
          get(sessions, last.args[1])[1].createdAt
    /\ \E i \in 1..Len(sessions) :
          /\ sessions[i].key # last.args[1]
          /\ sessions[i].val.createdAt = get(sessions, last.args[1])[1].updatedAt

\* C25: close, updateState and updateCapabilities on a registered session set
\* updatedAt to the time of the call, so it is later than before when time
\* has advanced; get, list, listAll and count leave every session as it was.
C25_MutationsSetUpdatedAt ==
    /\ (last.op \in {"close", "updateState", "updateCapabilities"}
          /\ PreSession(last.args[1]) # None) =>
          /\ get(sessions, last.args[1]) # None
          /\ get(sessions, last.args[1])[1].updatedAt = last.pre.clock
          /\ last.pre.clock > PreSession(last.args[1])[1].updatedAt =>
                get(sessions, last.args[1])[1].updatedAt >
                   PreSession(last.args[1])[1].updatedAt
    /\ last.op \in {"get", "list", "listAll", "count"} =>
          sessions = last.pre.sessions

\* C25 witness: updateCapabilities with neither side supplied, later than the
\* session's last update
C25_Witness ==
    /\ last.op = "updateCapabilities"
    /\ last.args[2] = None
    /\ last.args[3] = None
    /\ Kept(last.args[1])
    /\ get(sessions, last.args[1])[1].updatedAt >
          PreSession(last.args[1])[1].updatedAt

-----------------------------------------------------------------------------
(* Properties of the MiddlewarePipeline *)

\* what the handlers of run r recorded before and after their continuation call
Befores(r) == SelectSeq(runs[r].trace, LAMBDA x : x.phase = "before")
Afters(r) == SelectSeq(runs[r].trace, LAMBDA x : x.phase = "after")

Settled(r) == runs[r].status \in {"resolved", "rejected"}

\* the after-code of the handlers at positions n down to 1 ran, in this order
AftersFrom(r, n) ==
    /\ Len(Afters(r)) = n
    /\ \A i \in 1..n : Afters(r)[i].at = n + 1 - i

\* the handler at position k calls its continuation once and returns normally
ReturnsAfterNext(kind) == kind \in {"pass", "store", "catch"}

\* C1: in every run the before-code runs in registration order, handler 1
\* first, and the after-code in reverse registration order, after all the
\* before-code; when every handler calls its continuation once and returns,
\* the run records before 1..n and then after n..1.
C1_NestingOrder ==
    \A r \in RunIds :
        /\ runs[r].trace = Befores(r) \o Afters(r)
        /\ \A i \in 1..Len(Befores(r)) : Befores(r)[i].at = i
        /\ \A i \in 1..Len(Afters(r)) : Afters(r)[i].at <= Len(Befores(r))
        /\ \A i \in 1..(Len(Afters(r)) - 1) : Afters(r)[i].at > Afters(r)[i + 1].at
        /\ ( /\ Settled(r)
             /\ \A i \in 1..Len(Befores(r)) : ReturnsAfterNext(Befores(r)[i].kind) )
           => /\ runs[r].status = "resolved"
              /\ AftersFrom(r, Len(Befores(r)))

\* C1 witness: the chain [h1, h2] recorded before-1, before-2, after-2, after-1
C1_Witness ==
    \E r \in RunIds :
        /\ runs[r].status = "resolved"
        /\ runs[r].trace = << Before(1, "pass"), Before(2, "pass"),
                              After(2, "pass"), After(1, "pass") >>

\* the positions of run r whose handler returned without calling next
Stopped(r) == {k \in 1..Len(Befores(r)) : Befores(r)[k].kind = "stop"}

\* C2 as stated: when handler k returns without calling its continuation, no
\* later handler is invoked, the run resolves, and the after-code of the
\* handlers before k runs in reverse registration order.
C2_ShortCircuitAlwaysResolves ==
    \A r \in RunIds : \A k \in Stopped(r) :
        /\ Len(Befores(r)) = k
        /\ Settled(r) => (runs[r].status = "resolved" /\ AftersFrom(r, k - 1))

\* C2, amended: when handler k returns without calling its continuation, no
\* later handler is invoked; and when no handler before k throws in its
\* after-code, the run resolves and the after-code of the handlers before k
\* runs in reverse registration order.
C2_ShortCircuit ==
    \A r \in RunIds : \A k \in Stopped(r) :
        /\ Len(Befores(r)) = k
        /\ ( /\ Settled(r)
             /\ \A j \in 1..(k - 1) : Befores(r)[j].kind # "throwAfter" )
           => (runs[r].status = "resolved" /\ AftersFrom(r, k - 1))

\* C2 witness: handler 2 of three registered handlers stopped the chain and
\* the run resolved after handler 1's after-code
C2_Witness ==
    \E r \in RunIds :
        /\ runs[r].status = "resolved"
        /\ 2 \in Stopped(r)
        /\ Len(arrays[runs[r].mw]) >= 3
        /\ Len(Afters(r)) = 1

\* the positions of run r whose handler threw: before calling next, or in its
\* after-code
ThrewBefore(r) == {k \in 1..Len(Befores(r)) : Befores(r)[k].kind = "throw"}
ThrewAfter(r) ==
    {k \in 1..Len(Befores(r)) :
        \E i \in 1..Len(Afters(r)) :
            Afters(r)[i].at = k /\ Afters(r)[i].kind = "throwAfter"}

\* no handler registered before k catches around its continuation call
Uncaught(r, k) == \A j \in 1..(k - 1) : Befores(r)[j].kind # "catch"

\* the failure of handler k is what the call rejects with
RejectsWith(r, k) ==
    /\ runs[r].status # "resolved"
    /\ runs[r].err = Some(Error(r, k))
    /\ Settled(r) => runs[r].status = "rejected"

\* C3 as stated: an uncaught failure of handler k rejects the call with that
\* very error, and no handler registered after k is invoked in the run.
C3_FailureStopsLaterHandlers ==
    \A r \in RunIds : \A k \in ThrewBefore(r) \cup ThrewAfter(r) :
        Uncaught(r, k) => (RejectsWith(r, k) /\ Len(Befores(r)) = k)

\* C3, amended: an uncaught failure of handler k rejects the call with that
\* very error, and no handler is invoked once k has failed: none after k at
\* all when k fails before calling its continuation.
C3_FailurePropagatesVerbatim ==
    \A r \in RunIds : \A k \in ThrewBefore(r) \cup ThrewAfter(r) :
        Uncaught(r, k) =>
            /\ RejectsWith(r, k)
            /\ k \in ThrewBefore(r) => Len(Befores(r)) = k
            /\ \A i \in 1..Len(runs[r].trace) :
                  ( runs[r].trace[i].at = k
                    /\ runs[r].trace[i].kind \in {"throw", "throwAfter"}
                    /\ runs[r].trace[i].phase =
                          (IF k \in ThrewBefore(r) THEN "before" ELSE "after") )
                  => \A j \in (i + 1)..Len(runs[r].trace) :
                        runs[r].trace[j].phase # "before"

\* C3 witness: handler 2 of three threw, nothing caught it, the call rejected
\* with handler 2's error
C3_Witness ==
    \E r \in RunIds :
        /\ runs[r].status = "rejected"
        /\ 2 \in ThrewBefore(r)
        /\ Uncaught(r, 2)
        /\ runs[r].err = Some(Error(r, 2))
        /\ Len(arrays[runs[r].mw]) >= 3

\* the store calls the handlers of run r made
StoreCalls(r) ==
    Len(SelectSeq(Befores(r), LAMBDA x : x.kind = "store"))

\* C4: after a process call rejected, the events its handlers stored are still
\* in the session's log and count() is higher than before the call by the
\* number of store calls (by exactly that when no other call ran meanwhile).
C4_NoRollback ==
    \A r \in RunIds :
        (runs[r].status = "rejected" /\ StoreCalls(r) >= 1) =>
            LET e == runs[r].event[1]
            IN  /\ Occ(LogOf(e.sessionId), e) >= StoreCalls(r)
                /\ count(messages) >= runs[r].base + StoreCalls(r)
                /\ (\A q \in RunIds \ {r} : runs[q].status = "idle")
                      => count(messages) = runs[r].base + StoreCalls(r)

\* C4 witness: a handler stored the event, a later handler threw, the call
\* rejected, and count() is one higher than before the call
C4_Witness ==
    \E r \in RunIds :
        /\ runs[r].status = "rejected"
        /\ StoreCalls(r) = 1
        /\ runs[r].base >= 1
        /\ \E k \in ThrewBefore(r) : k > 1
        /\ count(messages) = runs[r].base + 1
        /\ \A q \in RunIds \ {r} : runs[q].status = "idle"

\* the context calls run r made before its i-th one that set the key of the
\* i-th call
SetsBefore(r, i) ==
    {j \in 1..(i - 1) :
        runs[r].calls[j].op = "set" /\ runs[r].calls[j].key = runs[r].calls[i].key}

\* the get calls of run r, by their position among its context calls
Gets(r) == {i \in 1..Len(runs[r].calls) : runs[r].calls[i].op = "get"}

\* C26: within one run, a get(key) that follows a set(key, v) returns the
\* value of the latest such set, for every value and every key, in the setting
\* handler, in the handlers invoked afterwards and in the after-code of the
\* earlier ones.
C26_GetReturnsLastSet ==
    \A r \in RunIds : \A i \in Gets(r) :
        SetsBefore(r, i) # {} =>
            runs[r].calls[i].value =
               runs[r].calls[CHOOSE j \in SetsBefore(r, i) :
                                \A k \in SetsBefore(r, i) : k <= j].value

\* C27: a get(key) with no earlier set(key, v) in its context returns the
\* key's default (undefined without one), also when another key of the same
\* name was set.
C27_UnsetKeyGetsDefault ==
    \A r \in RunIds : \A i \in Gets(r) :
        SetsBefore(r, i) = {} =>
            runs[r].calls[i].value = runs[r].calls[i].key.defaultValue

\* C27 witness: the key without default read undefined, was then set to "v",
\* and the key of the same name with a default still reads its default
C27_Witness ==
    \E r \in RunIds : \E i, j, k \in 1..Len(runs[r].calls) :
        /\ i < j /\ j < k
        /\ runs[r].calls[i] = GetCall(1, "before", KeyA, Undefined)
        /\ runs[r].calls[j] = SetCall(2, KeyA, "v")
        /\ runs[r].calls[k] = GetCall(1, "after", KeyB, "42")

\* the before-entries and the after-entries of a call frame's trace
BeforesOf(run) == SelectSeq(run.trace, LAMBDA x : x.phase = "before")
AftersOf(run) == SelectSeq(run.trace, LAMBDA x : x.phase = "after")

\* the call frame went past the last handler of its array
PastEnd(run, array) == run.status = "running" /\ run.index > Len(array)

\* C28: use appends the handler at the end of the pipeline's chain, which is
\* one longer afterwards; a run that starts executes the chain as it is then
\* registered, also when an earlier run had the composed function cached, and
\* a run that gets past the end of the chain has invoked every registered
\* handler, in registration order, the one added last as the last.
C28_UseAppendsForLaterRuns ==
    [][/\ arrays' # arrays =>
            \E kind \in Handlers :
                /\ arrays'[middlewares'] = Append(arrays[middlewares], kind)
                /\ Len(arrays'[middlewares']) = Len(arrays[middlewares]) + 1
       /\ \A r \in RunIds :
            (runs[r].status # "running" /\ runs'[r].status = "running") =>
                arrays'[runs'[r].mw] = arrays'[middlewares']
       /\ \A r \in RunIds :
            ( /\ ~PastEnd(runs[r], arrays[runs[r].mw])
              /\ PastEnd(runs'[r], arrays'[runs'[r].mw]) ) =>
                /\ Len(BeforesOf(runs'[r])) = Len(arrays'[middlewares'])
                /\ \A p \in 1..Len(arrays'[middlewares']) :
                      BeforesOf(runs'[r])[p] = Before(p, arrays'[middlewares'][p])
      ]_vars

\* C28 witness: a run resolved over a chain of one handler, and another run
\* resolved over the chain of two after a handler was added
C28_Witness ==
    /\ runs["r1"].status = "resolved"
    /\ runs["r1"].trace = << Before(1, "pass"), After(1, "pass") >>
    /\ runs["r2"].status = "resolved"
    /\ runs["r2"].trace = << Before(1, "pass"), Before(2, "catch"),
                             After(2, "catch"), After(1, "pass") >>
    /\ composedFn # None

\* a call frame's record is in order: before-code at positions 1, 2, ...,
\* after-code at strictly decreasing positions, and a failure only when one of
\* the handlers it invoked throws
InOrder(run) ==
    /\ run.trace = BeforesOf(run) \o AftersOf(run)
    /\ \A i \in 1..Len(BeforesOf(run)) : BeforesOf(run)[i].at = i
    /\ \A i \in 1..(Len(AftersOf(run)) - 1) :
          AftersOf(run)[i].at > AftersOf(run)[i + 1].at
    /\ \A i \in 1..Len(AftersOf(run)) : AftersOf(run)[i].at <= Len(BeforesOf(run))
    /\ run.pc = "exc" =>
          \E i \in 1..Len(BeforesOf(run)) :
              BeforesOf(run)[i].kind \in {"throw", "throwAfter"}

\* C29: with two process calls interleaved, every step belongs to one call
\* and leaves the other call's record as it was, and each call's record stays
\* in order: no handler of it is reordered, skipped or invoked twice.
C29_InterleavedRunsKeepOrder ==
    [][/\ \A r, q \in RunIds :
            (runs'[r] # runs[r] /\ q # r) => runs'[q] = runs[q]
       /\ \A r \in RunIds : InOrder(runs'[r])
      ]_vars

\* C29 witness: both calls are in flight on a chain of three handlers; the
\* first one is running its after-code while the second waits inside handler 2
C29_Witness ==
    /\ runs["r1"].status = "running"
    /\ runs["r2"].status = "running"
    /\ Len(AftersOf(runs["r1"])) = 1
    /\ Len(BeforesOf(runs["r1"])) = 3
    /\ runs["r2"].stack = <<1, 2>>
    /\ runs["r2"].pc = "call"

-----------------------------------------------------------------------------
(* The MessageStore as an append-only log *)

\* the store under every operation of the MessageStore: query with no filter,
\* the lookups for requestId 1
NextAppend ==
    \/ \E e \in StoreEvents : Store(e)
    \/ \E s \in SessionIds : GetBySession(s)
    \/ \E s \in SessionIds : GetByRequestId(s, Num(1))
    \/ Query
    \/ \E s \in SessionIds : Correlate(s, Num(1))
    \/ \E s \in SessionIds : CountBySession(s)
    \/ Count
    \/ \E s \in SessionIds : ClearSession(s)
    \/ Clear

SpecAppend == Init /\ [][NextAppend]_vars

\* the operations of the MessageStore that only read
StoreReads ==
    {"getBySession", "getByRequestId", "query", "correlate", "countBySession", "count"}

\* log p is the beginning of log q
IsPrefix(p, q) == Len(p) <= Len(q) /\ SubSeq(q, 1, Len(p)) = p

\* C31: a store(event) call changes its session's log only by adding the event
\* at its end, count() and countBySession grow by exactly one, every operation
\* other than clearSession and clear leaves each logged event in its place,
\* and the reading operations leave the logs and the index as they were.
C31_AppendOnly ==
    /\ last.op = "store" =>
          LET e == last.args[1]
          IN  /\ LogOf(e.sessionId) = Append(PreLog(e.sessionId), e)
              /\ count(messages) = count(last.pre.messages) + 1
              /\ countBySession(messages, e.sessionId) =
                    countBySession(last.pre.messages, e.sessionId) + 1
    /\ last.op \notin {"clearSession", "clear"} =>
          \A s \in SessionIds : IsPrefix(PreLog(s), LogOf(s))
    /\ last.op \in StoreReads =>
          /\ messages = last.pre.messages
          /\ byRequestId = last.pre.byRequestId

\* C31 witness: countBySession was called for a session without events while
\* another session holds two events, the second stored after the first
C31_Witness ==
    /\ last.op = "countBySession"
    /\ ~MapHas(messages, last.args[1])
    /\ \E s \in SessionIds : Len(LogOf(s)) >= 2

-----------------------------------------------------------------------------
(* Events without a requestId *)

\* events for the index: requests and a response that carry an id, and a
\* notification, a response and an error response whose id is null
UnindexedEvents ==
    { createMessageEvent("n1", 1, "s1", "outbound", JsonRpcRequest(Num(1), "tools/list")),
      createMessageEvent("n2", 2, "s1", "inbound", JsonRpcResponse(Some(Num(1)))),
      createMessageEvent("n3", 1, "s2", "outbound", JsonRpcRequest(Str("1"), "ping")),
      createMessageEvent("n4", 2, "s1", "inbound", JsonRpcNotification("notify")),
      createMessageEvent("n5", 3, "s1", "inbound", JsonRpcResponse(None)),
      createMessageEvent("n6", 3, "s2", "inbound", JsonRpcErrorResponse(None)) }

\* the store under events with and without a requestId
NextUnindexed ==
    \/ \E e \in UnindexedEvents : Store(e)
    \/ \E s \in SessionIds, r \in RequestIds : GetByRequestId(s, r)
    \/ \E s \in SessionIds : CountBySession(s)
    \/ Count
    \/ \E s \in SessionIds : ClearSession(s)

SpecUnindexed == Init /\ [][NextUnindexed]_vars

\* C32: storing an event without a requestId (a notification, or a response
\* whose id is null) appends it to its session's log, raises count() and the
\* session's count by one and leaves the requestId index as it was: every
\* getByRequestId result is the one of before the call.
C32_NoRequestIdLeavesIndex ==
    (last.op = "store" /\ last.args[1].requestId = None) =>
        LET e == last.args[1]
        IN  /\ LogOf(e.sessionId) = Append(PreLog(e.sessionId), e)
            /\ count(messages) = count(last.pre.messages) + 1
            /\ countBySession(messages, e.sessionId) =
                  countBySession(last.pre.messages, e.sessionId) + 1
            /\ byRequestId = last.pre.byRequestId
            /\ \A s \in SessionIds, r \in RequestIds :
                  getByRequestId(byRequestId, s, r) =
                     getByRequestId(last.pre.byRequestId, s, r)

\* C32 witness: a response whose id is null was stored for a session that has
\* an event in the index, after a notification
C32_Witness ==
    /\ last.op = "store"
    /\ "id" \in last.args[1].payload.keys
    /\ last.args[1].payload.id = None
    /\ last.args[1].requestId = None
    /\ getByRequestId(byRequestId, last.args[1].sessionId, Num(1)) # None
    /\ \E i \in 1..Len(PreLog("s1")) : PreLog("s1")[i].id = "n4"

-----------------------------------------------------------------------------
(* One context for each process call *)

\* handlers of the interleaved process calls that use the context
IsolationHandlers == {"get", "setA_v", "setB_v"}

\* two process calls, given the same event and session, on a pipeline of
\* handlers that use the context
NextIsolation ==
    \/ \E kind \in IsolationHandlers : Use(kind)
    \/ \E r \in RunIds, e \in PipeEvents : Process(r, e, e.sessionId)
    \/ \E r \in RunIds : CallNext(r)
    \/ \E r \in RunIds : Resume(r)
    \/ \E r \in RunIds : Settle(r)

SpecIsolation == Init /\ [][NextIsolation]_vars

RECURSIVE OwnExtensions(_)
\* the extensions a context holds after the set calls among these calls
OwnExtensions(calls) ==
    IF calls = <<>> THEN <<>>
    ELSE LET c == calls[Len(calls)]
             rest == OwnExtensions(SubSeq(calls, 1, Len(calls) - 1))
         IN  IF c.op = "set" THEN contextSet(rest, c.key, c.value) ELSE rest

\* C33: every process call runs on a context of its own: what a get returns
\* follows from the set calls of the same process call alone, so a key that
\* this call has not set reads its default whatever another call, given the
\* same event and session and interleaved with it, has set under the key.
C33_FreshContext ==
    \A r \in RunIds :
        /\ runs[r].extensions = OwnExtensions(runs[r].calls)
        /\ \A i \in Gets(r) :
              /\ runs[r].calls[i].value =
                    contextGet(OwnExtensions(SubSeq(runs[r].calls, 1, i - 1)),
                               runs[r].calls[i].key)
              /\ SetsBefore(r, i) = {} =>
                    runs[r].calls[i].value = runs[r].calls[i].key.defaultValue

\* C33 witness: both calls are in flight for the same event and session; one
\* has set the key without default to "v" and read it back, the other has
\* only read the key and got undefined
C33_Witness ==
    \E r, q \in RunIds :
        /\ r # q
        /\ runs[r].status = "running" /\ runs[q].status = "running"
        /\ runs[r].event = runs[q].event /\ runs[r].session = runs[q].session
        /\ \E j \in 1..Len(runs[r].calls) : runs[r].calls[j] = SetCall(2, KeyA, "v")
        /\ contextGet(runs[r].extensions, KeyA) = "v"
        /\ runs[q].calls = Reads(<<>>, 1, "before")
        /\ runs[q].extensions = <<>>

-----------------------------------------------------------------------------
(* A failure caught by an earlier handler *)

\* the handler that catches the failure of handler k: the nearest handler
\* registered before k whose await next() is wrapped in a try/catch
Catcher(r, k) ==
    CHOOSE c \in 1..(k - 1) :
        /\ Befores(r)[c].kind = "catch"
        /\ \A j \in (c + 1)..(k - 1) : Befores(r)[j].kind # "catch"

\* the after-code of the handlers registered before c ran, in the order
\* c - 1 down to 1
AftersBelow(r, c) ==
    LET below == SelectSeq(Afters(r), LAMBDA x : x.at < c)
    IN  /\ Len(below) = c - 1
        /\ \A i \in 1..(c - 1) : below[i].at = c - i

\* no handler is invoked once handler k has thrown
NothingInvokedAfter(r, k) ==
    \A i \in 1..Len(runs[r].trace) :
        ( /\ runs[r].trace[i].at = k
          /\ runs[r].trace[i].kind \in {"throw", "throwAfter"}
          /\ runs[r].trace[i].phase =
                (IF k \in ThrewBefore(r) THEN "before" ELSE "after") )
        => \A j \in (i + 1)..Len(runs[r].trace) : runs[r].trace[j].phase # "before"

\* C34 as stated: when handler k throws and an earlier-registered handler
\* catches the failure and returns, the call resolves, the after-code of the
\* handlers before the catching one runs in reverse registration order, and
\* no handler registered after k is invoked.
C34_CaughtFailureAlwaysResolves ==
    \A r \in RunIds : \A k \in ThrewBefore(r) \cup ThrewAfter(r) :
        ~Uncaught(r, k) =>
            /\ Settled(r) =>
                  (runs[r].status = "resolved" /\ AftersBelow(r, Catcher(r, k)))
            /\ Len(Befores(r)) = k

\* C34, amended: when handler k throws and an earlier-registered handler
\* catches the failure and returns, no handler is invoked once k has thrown
\* (none after k at all when k throws before calling its continuation); and
\* when no handler before the catching one throws in its after-code, the call
\* resolves and the after-code of the handlers before the catching one runs
\* in reverse registration order.
C34_CaughtFailureResolves ==
    \A r \in RunIds : \A k \in ThrewBefore(r) \cup ThrewAfter(r) :
        ~Uncaught(r, k) =>
            /\ ( /\ Settled(r)
                 /\ \A j \in 1..(Catcher(r, k) - 1) : Befores(r)[j].kind # "throwAfter" )
               => (runs[r].status = "resolved" /\ AftersBelow(r, Catcher(r, k)))
            /\ k \in ThrewBefore(r) => Len(Befores(r)) = k
            /\ NothingInvokedAfter(r, k)

\* C34 witness: handler 3 threw, handler 2 caught it, handler 1's after-code
\* ran and the call resolved
C34_Witness ==
    \E r \in RunIds :
        /\ runs[r].status = "resolved"
        /\ runs[r].trace = << Before(1, "pass"), Before(2, "catch"), Before(3, "throw"),
                              After(2, "catch"), After(1, "pass") >>

-----------------------------------------------------------------------------
(* Termination of a process call *)

\* handlers of the calls that may hang
LiveHandlers == {"hang", "catch", "throw"}

\* an event every handler completes on, and one the "hang" handler never
\* completes on
LiveEvents ==
    PipeEvents \cup
    { createMessageEvent("e2", 3, "s1", "outbound", JsonRpcRequest(Num(2), "block")) }

NextLive ==
    \/ \E kind \in LiveHandlers : Use(kind)
    \/ \E r \in RunIds, e \in LiveEvents : Process(r, e, e.sessionId)
    \/ \E r \in RunIds : CallNext(r)
    \/ \E r \in RunIds : Resume(r)
    \/ \E r \in RunIds : Settle(r)

\* the event loop runs every continuation that is ready: a handler that can
\* call next(), a handler whose awaited promise has settled, and the caller
\* whose composed function has settled, each for every call in flight
SpecLive ==
    /\ Init
    /\ [][NextLive]_vars
    /\ \A r \in RunIds :
          WF_vars(CallNext(r)) /\ WF_vars(Resume(r)) /\ WF_vars(Settle(r))

\* the call is in flight and suspended in a handler that never completes
Hung(r) == runs[r].status = "running" /\ runs[r].pc = "hung"

\* C35: a process call in flight eventually settles (resolves or rejects)
\* unless one of its handlers never completes, whatever the other calls do;
\* a call suspended in a handler that never completes stays pending forever.
C35_SettlesUnlessHung ==
    /\ \A r \in RunIds :
          (runs[r].status = "running") ~> (Settled(r) \/ Hung(r))
    /\ \A r \in RunIds : [](Hung(r) => []Hung(r))

\* C35 witness: one call is suspended in the handler that never completes
\* while the other, on the same chain, went through that handler, had the
\* failure of a later handler caught and resolved
C35_Witness ==
    \E r, q \in RunIds :
        /\ Hung(r)
        /\ runs[r].trace = << Before(1, "catch"), Before(2, "hang") >>
        /\ runs[q].status = "resolved"
        /\ runs[q].mw = runs[r].mw
        /\ runs[q].trace = << Before(1, "catch"), Before(2, "hang"), Before(3, "throw"),
                              After(1, "catch") >>

-----------------------------------------------------------------------------
(* Session ids and request ids that are arbitrary strings *)

\* session ids and request ids as the store accepts them: any string, so
\* also ones that hold the separator of the index key
AnySessionIds == {"a", "a:b"}
AnyRequestIds == {Num(1), Str("b:1")}

\* makeRequestKey("a", "b:1") and makeRequestKey("a:b", 1) are both "a:b:1"
AnyEvents ==
    { createMessageEvent("c1", 1, "a", "outbound", JsonRpcRequest(Str("b:1"), "tools/list")),
      createMessageEvent("c2", 2, "a", "inbound", JsonRpcResponse(Some(Num(1)))),
      createMessageEvent("c3", 1, "a:b", "outbound", JsonRpcRequest(Num(1), "tools/call")),
      createMessageEvent("c4", 3, "a:b", "inbound", JsonRpcResponse(Some(Num(1)))) }

\* the store under session ids and request ids that hold the separator
NextAny ==
    \/ \E e \in AnyEvents : Store(e)
    \/ \E s \in AnySessionIds : GetBySession(s)
    \/ \E s \in AnySessionIds, r \in AnyRequestIds : GetByRequestId(s, r)
    \/ \E s \in AnySessionIds, r \in AnyRequestIds : Correlate(s, r)
    \/ \E s \in AnySessionIds : ClearSession(s)
    \/ Clear

SpecAny == Init /\ [][NextAny]_vars

\* C36: clearSession(s) leaves every other session t as it was, for all
\* session ids and request ids the store accepts: getBySession(t),
\* countBySession(t), and getByRequestId(t, r) and correlate(t, r) for every r
\* are those of before the call.
C36_ClearSessionLeavesOthers ==
    last.op = "clearSession" =>
        \A t \in AnySessionIds \ {last.args[1]} :
            /\ getBySession(messages, t) = PreLog(t)
            /\ countBySession(messages, t) = countBySession(last.pre.messages, t)
            /\ \A r \in AnyRequestIds :
                  /\ getByRequestId(byRequestId, t, r) =
                        getByRequestId(last.pre.byRequestId, t, r)
                  /\ correlate(messages, t, r) = correlate(last.pre.messages, t, r)

-----------------------------------------------------------------------------
(* The requestId index against the logs *)

\* C37: in every state of the store, every requestId index entry holds an
\* event that is in the log of its own session and that carries the sessionId
\* and the requestId of the entry's key, and every logged event with a
\* requestId is what getByRequestId returns for its session and requestId
\* unless a later event of the session carries the same requestId.
C37_IndexMatchesLogs ==
    /\ \A i \in 1..Len(byRequestId) :
          LET e == byRequestId[i].val
          IN  /\ \E j \in 1..Len(LogOf(e.sessionId)) : LogOf(e.sessionId)[j] = e
              /\ e.requestId # None
              /\ byRequestId[i].key = makeRequestKey(e.sessionId, e.requestId[1])
    /\ \A s \in SessionIds : \A j \in 1..Len(LogOf(s)) :
          LET e == LogOf(s)[j]
          IN  e.requestId # None =>
                \/ getByRequestId(byRequestId, s, e.requestId[1]) = Some(e)
                \/ \E k \in (j + 1)..Len(LogOf(s)) : LogOf(s)[k].requestId = e.requestId

-----------------------------------------------------------------------------
(* Store calls of interleaved process calls *)

\* handlers of the calls that store their event
StoringHandlers == {"store", "pass"}

\* two events of one session, so that the order of the store calls shows
StoringEvents ==
    { createMessageEvent("e1", 2, "s1", "outbound", JsonRpcRequest(Num(1), "tools/list")),
      createMessageEvent("e3", 3, "s1", "inbound", JsonRpcResponse(Some(Num(1)))) }

\* the event each caller hands to process
StoringEvent(r) ==
    CHOOSE e \in StoringEvents : e.id = (IF r = "r1" THEN "e1" ELSE "e3")

\* two process calls whose handlers store into the same session
NextStoring ==
    \/ \E kind \in StoringHandlers : Use(kind)
    \/ \E r \in RunIds : Process(r, StoringEvent(r), StoringEvent(r).sessionId)
    \/ \E r \in RunIds : CallNext(r)
    \/ \E r \in RunIds : Resume(r)
    \/ \E r \in RunIds : Settle(r)

SpecStoring == Init /\ [][NextStoring]_vars

\* this step invoked a storing handler of call r: the call's record of
\* invocations grew by the before-code of a "store" handler
StoreInvoked(r) ==
    /\ runs'[r] # runs[r]
    /\ runs'[r].trace # <<>>
    /\ runs'[r].trace[Len(runs'[r].trace)].phase = "before"
    /\ runs'[r].trace[Len(runs'[r].trace)].kind = "store"
    /\ Len(runs'[r].trace) =
          IF runs[r].status = "running" THEN Len(runs[r].trace) + 1 ELSE 1

\* C38: with process calls interleaved at their suspension points and storing
\* into the same session, every store call a handler makes adds its event
\* once at the end of the session's log and raises count() by one, and no
\* other step of a call changes the log: the log holds each event once per
\* store call, in the order of the calls, and count() is their number.
C38_StoreCallsLogged ==
    [][ \A s \in SessionIds :
          LET storing == {r \in RunIds :
                            StoreInvoked(r) /\ runs'[r].event[1].sessionId = s}
          IN  IF storing = {}
              THEN getBySession(messages', s) = getBySession(messages, s)
              ELSE /\ \E r \in storing :
                         getBySession(messages', s) =
                            Append(getBySession(messages, s), runs'[r].event[1])
                   /\ count(messages') = count(messages) + 1 ]_vars

\* C38 witness: the first call stored its event, the second call started and
\* stored its own, then the first call stored again: the log holds the three
\* events in that order
C38_Witness ==
    \E r, q \in RunIds :
        /\ runs[r].base = 0 /\ runs[q].base = 1
        /\ runs[r].event # runs[q].event
        /\ StoreCalls(r) = 2 /\ StoreCalls(q) = 1
        /\ LogOf("s1") = << runs[r].event[1], runs[q].event[1], runs[r].event[1] >>
        /\ count(messages) = 3

-----------------------------------------------------------------------------
(* The registry and the store side by side *)

\* events of the registered sessions
SessionEvents ==
    { createMessageEvent("m1", 1, "u1", "outbound", JsonRpcRequest(Num(1), "tools/list")),
      createMessageEvent("m2", 2, "u1", "inbound", JsonRpcResponse(Some(Num(1)))),
      createMessageEvent("m3", 1, "u2", "outbound", JsonRpcRequest(Num(1), "ping")) }

\* the registry's lifecycle operations and the store, as the server uses them
NextSessions ==
    \/ Create
    \/ \E id \in Ids : Close(id)
    \/ \E id \in Ids, state \in {"ACTIVE", "ERROR"} : UpdateState(id, state)
    \/ \E id \in Ids : Delete(id)
    \/ \E e \in SessionEvents : Store(e)
    \/ \E id \in Ids : ClearSession(id)
    \/ Clear

SpecSessions == Init /\ [][NextSessions]_vars

\* C39: close(id), updateState(id, s) and delete(id) leave the store as it
\* was: getBySession(id), countBySession(id), getByRequestId(id, r),
\* correlate(id, r) and count() return what they returned before the call, so
\* the events of a closed or deleted session stay queryable.
C39_RegistryLeavesStore ==
    last.op \in {"close", "updateState", "delete"} =>
        /\ messages = last.pre.messages
        /\ byRequestId = last.pre.byRequestId
        /\ count(messages) = count(last.pre.messages)
        /\ \A id \in Ids :
              /\ getBySession(messages, id) = PreLog(id)
              /\ countBySession(messages, id) = countBySession(last.pre.messages, id)
              /\ \A r \in RequestIds :
                    /\ getByRequestId(byRequestId, id, r) =
                          getByRequestId(last.pre.byRequestId, id, r)
                    /\ correlate(messages, id, r) = correlate(last.pre.messages, id, r)

\* C39 witness: a registered session with a request and its response in the
\* store was deleted, and its events are still returned
C39_Witness ==
    /\ last.op = "delete"
    /\ last.out = TRUE
    /\ get(sessions, last.args[1]) = None
    /\ countBySession(messages, last.args[1]) = 2
    /\ getByRequestId(byRequestId, last.args[1], Num(1)) # None
    /\ correlate(messages, last.args[1], Num(1)) # None
    /\ correlate(messages, last.args[1], Num(1))[1].response # None

-----------------------------------------------------------------------------
(* use and clear while a call is in flight *)

\* handlers of the calls during which the chain changes
ChainHandlers == {"pass", "stop"}

\* the pipeline under use, clear and a process call
NextChain ==
    \/ \E kind \in ChainHandlers : Use(kind)
    \/ PipelineClear
    \/ \E e \in PipeEvents : Process("r1", e, e.sessionId)
    \/ CallNext("r1")
    \/ Resume("r1")
    \/ Settle("r1")

SpecChain == Init /\ [][NextChain]_vars

====
